---- MODULE Spec2Model ----
(***************************************************************************)
(* A model of pulumi_terraform.state.remote_state_reference: the thirteen  *)
(* backend argument classes, the RemoteStateReference resource, the lazily *)
(* resolved outputs it exposes through get_output, and the translation of  *)
(* property names.                                                         *)
(*                                                                         *)
(* Python values are tagged records, so that None, "", 0, a dict and an    *)
(* object are different values with Python's truthiness.                   *)
(***************************************************************************)
EXTENDS Integers, Sequences, FiniteSets, TLC

VARIABLES
    call,     \* the call being evaluated, with its arguments and locals, or NoCall
    args,     \* the value the last backend-args constructor call returned
    raised,   \* the exception the last constructor call raised, or NoExc
    refs,     \* the RemoteStateReference objects alive, in creation order
    engine,   \* the requests handed to the engine by super().__init__
    handles   \* the Outputs returned by get_output, in call order

vars == <<call, args, raised, refs, engine, handles>>

----------------------------------------------------------------------------
(* Bounds of the model. *)

\* How many optional keyword arguments one backend-args call passes.
MaxOptionalSet == 2
\* How many optional keyword arguments the args of a reference were built with.
NewOptionalSet == 1
\* How many references one program run creates (specification Spec).
MaxRefs == 2
\* How many get_output calls one program run makes (specification Spec).
MaxHandles == 2

----------------------------------------------------------------------------
(* Python values. *)

PyNone == [t |-> "NoneType"]
PyStr(s) == [t |-> "str", s |-> s]
PyInt(n) == [t |-> "int", n |-> n]
PyBool(b) == [t |-> "bool", b |-> b]
Dict(d) == [t |-> "dict", d |-> d]
Obj(cls, props) == [t |-> "object", cls |-> cls, props |-> props]

\* Python's truth value testing: None, "", 0 and {} are false, and an
\* instance of a class that defines neither __bool__ nor __len__ is true.
Truthy(v) ==
    CASE v.t = "NoneType" -> FALSE
      [] v.t = "str" -> v.s # ""
      [] v.t = "int" -> v.n # 0
      [] v.t = "bool" -> v.b
      [] v.t = "dict" -> DOMAIN v.d # {}
      [] OTHER -> TRUE

IsInstance(v, cls) == v.t = "object" /\ v.cls = cls
IsStr(v) == v.t = "str"

NoExc == [t |-> "none"]
Raise(exc, msg) == [t |-> "raise", exc |-> exc, msg |-> msg]
IsRaise(r) == r.t = "raise"

NoCall == [op |-> "none", done |-> TRUE]

Range(s) == {s[i] : i \in DOMAIN s}

----------------------------------------------------------------------------
(* The backend argument classes.  A signature lists the parameters of      *)
(* __init__ in order; the first `required` of them have no default, every  *)
(* other one defaults to None.                                             *)

ArtifactorySig ==
    [cls |-> "ArtifactoryBackendArgs", required |-> 2,
     params |-> <<"repo", "subpath", "url", "username", "password", "workspace">>]

AzureRMSig ==
    [cls |-> "AzureRMBackendArgs", required |-> 2,
     params |-> <<"storage_account_name", "container_name", "key", "environment",
                  "endpoint", "use_msi", "subscription_id", "tenant_id",
                  "msi_endpoint", "sas_token", "access_key", "resource_group_name",
                  "client_id", "client_secret", "workspace">>]

ConsulSig ==
    [cls |-> "ConsulBackendArgs", required |-> 2,
     params |-> <<"path", "access_token", "address", "scheme", "datacenter",
                  "http_auth", "gzip", "ca_file", "cert_file", "key_file",
                  "workspace">>]

EtcdV2Sig ==
    [cls |-> "EtcdV2BackendArgs", required |-> 2,
     params |-> <<"path", "endpoints", "username", "password", "workspace">>]

EtcdV3Sig ==
    [cls |-> "EtcdV3BackendArgs", required |-> 1,
     params |-> <<"endpoints", "username", "password", "prefix", "cacert_path",
                  "cert_path", "key_path", "workspace">>]

GcsSig ==
    [cls |-> "GcsBackendArgs", required |-> 1,
     params |-> <<"bucket", "credentials", "prefix", "encryption_key", "workspace">>]

HttpSig ==
    [cls |-> "HttpBackendArgs", required |-> 1,
     params |-> <<"address", "update_method", "lock_address", "lock_method",
                  "unlock_address", "unlock_method", "username", "password",
                  "skip_cert_validation", "workspace">>]

LocalSig ==
    [cls |-> "LocalBackendArgs", required |-> 1, params |-> <<"path">>]

MantaSig ==
    [cls |-> "MantaBackendArgs", required |-> 1,
     params |-> <<"account", "user", "url", "key_material", "key_id", "path",
                  "insecure_skip_tls_verify", "workspace">>]

PostgresSig ==
    [cls |-> "PostgresBackendArgs", required |-> 1,
     params |-> <<"conn_str", "schema_name", "workspace">>]

RemoteSig ==
    [cls |-> "RemoteBackendArgs", required |-> 1,
     params |-> <<"organization", "token", "hostname", "workspace_name",
                  "workspace_prefix">>]

S3Sig ==
    [cls |-> "S3BackendArgs", required |-> 2,
     params |-> <<"bucket", "key", "region", "endpoint", "access_key", "secret_key",
                  "profile", "shared_credentials_file", "token", "role_arn",
                  "external_id", "session_name", "workspace_key_prefix",
                  "iam_endpoint", "sts_endpoint", "workspace">>]

SwiftSig ==
    [cls |-> "SwiftBackendArgs", required |-> 2,
     params |-> <<"auth_url", "container", "username", "user_id", "password",
                  "token", "region_name", "tenant_id", "tenant_name", "domain_id",
                  "domain_name", "insecure", "cacert_file", "cert", "key">>]

\* The members of the BackendArgs union.
BackendArgs ==
    {ArtifactorySig, AzureRMSig, ConsulSig, EtcdV2Sig, EtcdV3Sig, GcsSig, HttpSig,
     LocalSig, MantaSig, PostgresSig, RemoteSig, S3Sig, SwiftSig}

RequiredParams(sig) == {sig.params[i] : i \in 1..sig.required}
OptionalParams(sig) == Range(sig.params) \ RequiredParams(sig)

\* Python's argument binding: a call that leaves out a parameter without a
\* default raises TypeError before the body runs.
MissingPositional(sig, kw) == \E p \in RequiredParams(sig) : p \notin DOMAIN kw
MissingPositionalError == Raise("TypeError", "missing required positional argument")

\* Mutant: a parameter the caller left out defaults to the empty string.
BoundEmptyDefault(sig, kw) ==
    [p \in Range(sig.params) |-> IF p \in DOMAIN kw THEN kw[p] ELSE PyStr("")]

\* The parameters as the body sees them: what the caller passed, else None.
Bound(sig, kw) ==
    [p \in Range(sig.params) |-> IF p \in DOMAIN kw THEN kw[p] ELSE PyNone]

\* Mutant: every parameter has a default, so no call fails to bind.
FlatInitAllDefaulted(sig, kw) == Obj(sig.cls, Bound(sig, kw))

\* The body shared by the twelve flat classes: self.props = dict(), then
\* self.props[p] = p for every parameter p.  Nothing is tested.
FlatInit(sig, kw) ==
    IF MissingPositional(sig, kw)
    THEN MissingPositionalError
    ELSE Obj(sig.cls, Bound(sig, kw))

ArtifactoryBackendArgs(kw) == FlatInit(ArtifactorySig, kw)
AzureRMBackendArgs(kw) == FlatInit(AzureRMSig, kw)
ConsulBackendArgs(kw) == FlatInit(ConsulSig, kw)
EtcdV2BackendArgs(kw) == FlatInit(EtcdV2Sig, kw)
EtcdV3BackendArgs(kw) == FlatInit(EtcdV3Sig, kw)
GcsBackendArgs(kw) == FlatInit(GcsSig, kw)
HttpBackendArgs(kw) == FlatInit(HttpSig, kw)
LocalBackendArgs(kw) == FlatInit(LocalSig, kw)
MantaBackendArgs(kw) == FlatInit(MantaSig, kw)
PostgresBackendArgs(kw) == FlatInit(PostgresSig, kw)
S3BackendArgs(kw) == FlatInit(S3Sig, kw)
SwiftBackendArgs(kw) == FlatInit(SwiftSig, kw)

\* Mutant: the test for both workspace options being given is missing.
RemoteBackendArgsNoConflictTest(kw) ==
    IF MissingPositional(RemoteSig, kw)
    THEN MissingPositionalError
    ELSE LET b == Bound(RemoteSig, kw) IN
         IF ~Truthy(b["organization"])
         THEN Raise("TypeError", "Missing organization argument")
         ELSE IF ~Truthy(b["workspace_name"]) /\ ~Truthy(b["workspace_prefix"])
         THEN Raise("TypeError", "Either workspace_name or workspace_prefix is required")
         ELSE Obj("RemoteBackendArgs",
                  [k \in {"organization", "token", "hostname", "workspaces"} |->
                     IF k = "workspaces"
                     THEN Dict([j \in {"workspace_name", "workspace_prefix"} |-> b[j]])
                     ELSE b[k]])

RemoteBackendArgs(kw) ==
    IF MissingPositional(RemoteSig, kw)
    THEN MissingPositionalError
    ELSE LET b == Bound(RemoteSig, kw) IN
         IF ~Truthy(b["organization"])
         THEN Raise("TypeError", "Missing organization argument")
         ELSE IF Truthy(b["workspace_name"]) /\ Truthy(b["workspace_prefix"])
         THEN Raise("TypeError", "Only workspace_name or workspace_prefix may be given")
         ELSE IF ~Truthy(b["workspace_name"]) /\ ~Truthy(b["workspace_prefix"])
         THEN Raise("TypeError", "Either workspace_name or workspace_prefix is required")
         ELSE Obj("RemoteBackendArgs",
                  [k \in {"organization", "token", "hostname", "workspaces"} |->
                     IF k = "workspaces"
                     THEN Dict([j \in {"workspace_name", "workspace_prefix"} |-> b[j]])
                     ELSE b[k]])

\* The constructor of the class named cls.
NewBackendArgs(cls, kw) ==
    CASE cls = "ArtifactoryBackendArgs" -> ArtifactoryBackendArgs(kw)
      [] cls = "AzureRMBackendArgs" -> AzureRMBackendArgs(kw)
      [] cls = "ConsulBackendArgs" -> ConsulBackendArgs(kw)
      [] cls = "EtcdV2BackendArgs" -> EtcdV2BackendArgs(kw)
      [] cls = "EtcdV3BackendArgs" -> EtcdV3BackendArgs(kw)
      [] cls = "GcsBackendArgs" -> GcsBackendArgs(kw)
      [] cls = "HttpBackendArgs" -> HttpBackendArgs(kw)
      [] cls = "LocalBackendArgs" -> LocalBackendArgs(kw)
      [] cls = "MantaBackendArgs" -> MantaBackendArgs(kw)
      [] cls = "PostgresBackendArgs" -> PostgresBackendArgs(kw)
      [] cls = "RemoteBackendArgs" -> RemoteBackendArgs(kw)
      [] cls = "S3BackendArgs" -> S3BackendArgs(kw)
      [] cls = "SwiftBackendArgs" -> SwiftBackendArgs(kw)

----------------------------------------------------------------------------
(* The calls a program can make to a backend-args constructor. *)

RECURSIVE SubsetsUpTo(_, _)
SubsetsUpTo(S, k) ==
    IF k = 0
    THEN {{}}
    ELSE LET smaller == SubsetsUpTo(S, k - 1)
         IN smaller \cup {T \cup {x} : T \in smaller, x \in S}

\* The keyword arguments of one call: any of the required parameters passed
\* a value of reqVals, and at most maxOpt optional ones a value of optVals.
KwInputs(sig, reqs, reqVals, optVals, maxOpt) ==
    UNION {{fr @@ fo : fr \in [R -> reqVals], fo \in [O -> optVals]} :
             R \in reqs, O \in SubsetsUpTo(OptionalParams(sig), maxOpt)}

RequiredValues == {PyNone, PyStr(""), PyStr("v")}
OptionalValues == {PyStr(""), PyStr("v")}

\* The call returns: the object is bound, or the exception propagates.
Return(r) ==
    /\ call' = [call EXCEPT !.done = TRUE]
    /\ IF IsRaise(r)
       THEN raised' = r /\ args' = args
       ELSE raised' = NoExc /\ args' = r
    /\ UNCHANGED <<refs, engine, handles>>

CallArtifactoryBackendArgs ==
    ~call.done /\ call.op = "ArtifactoryBackendArgs" /\ Return(ArtifactoryBackendArgs(call.kw))
CallAzureRMBackendArgs ==
    ~call.done /\ call.op = "AzureRMBackendArgs" /\ Return(AzureRMBackendArgs(call.kw))
CallConsulBackendArgs ==
    ~call.done /\ call.op = "ConsulBackendArgs" /\ Return(ConsulBackendArgs(call.kw))
CallEtcdV2BackendArgs ==
    ~call.done /\ call.op = "EtcdV2BackendArgs" /\ Return(EtcdV2BackendArgs(call.kw))
CallEtcdV3BackendArgs ==
    ~call.done /\ call.op = "EtcdV3BackendArgs" /\ Return(EtcdV3BackendArgs(call.kw))
CallGcsBackendArgs ==
    ~call.done /\ call.op = "GcsBackendArgs" /\ Return(GcsBackendArgs(call.kw))
CallHttpBackendArgs ==
    ~call.done /\ call.op = "HttpBackendArgs" /\ Return(HttpBackendArgs(call.kw))
CallLocalBackendArgs ==
    ~call.done /\ call.op = "LocalBackendArgs" /\ Return(LocalBackendArgs(call.kw))
CallMantaBackendArgs ==
    ~call.done /\ call.op = "MantaBackendArgs" /\ Return(MantaBackendArgs(call.kw))
CallPostgresBackendArgs ==
    ~call.done /\ call.op = "PostgresBackendArgs" /\ Return(PostgresBackendArgs(call.kw))
CallRemoteBackendArgs ==
    ~call.done /\ call.op = "RemoteBackendArgs" /\ Return(RemoteBackendArgs(call.kw))
CallS3BackendArgs ==
    ~call.done /\ call.op = "S3BackendArgs" /\ Return(S3BackendArgs(call.kw))
CallSwiftBackendArgs ==
    ~call.done /\ call.op = "SwiftBackendArgs" /\ Return(SwiftBackendArgs(call.kw))

Fresh ==
    /\ args = PyNone
    /\ raised = NoExc
    /\ refs = <<>>
    /\ engine = <<>>
    /\ handles = <<>>

\* Every call of SpecArgs: each required parameter passed or left out, and
\* at most MaxOptionalSet optional ones passed.
InitArgs ==
    /\ \E sig \in BackendArgs :
          \E R \in SUBSET RequiredParams(sig),
             O \in SubsetsUpTo(OptionalParams(sig), MaxOptionalSet) :
             \E fr \in [R -> RequiredValues], fo \in [O -> OptionalValues] :
                call = [op |-> sig.cls, kw |-> fr @@ fo, done |-> FALSE]
    /\ Fresh

NextArgs ==
    \/ CallArtifactoryBackendArgs
    \/ CallAzureRMBackendArgs
    \/ CallConsulBackendArgs
    \/ CallEtcdV2BackendArgs
    \/ CallEtcdV3BackendArgs
    \/ CallGcsBackendArgs
    \/ CallHttpBackendArgs
    \/ CallLocalBackendArgs
    \/ CallMantaBackendArgs
    \/ CallPostgresBackendArgs
    \/ CallRemoteBackendArgs
    \/ CallS3BackendArgs
    \/ CallSwiftBackendArgs

\* One backend-args constructor call, over every bounded argument list.
SpecArgs == InitArgs /\ [][NextArgs]_vars

----------------------------------------------------------------------------
(* RemoteStateReference. *)

\* A lambda of the registry: a function object testing isinstance(args, cls).
IsInstanceLambda(cls) == [t |-> "function", isinstance |-> cls]

\* Mutant: the predicate accepts whatever has a props attribute.
ApplyDuckTyped(f, a) == a.t = "object" /\ "props" \in DOMAIN a

\* Calling a lambda of the registry with args.
Apply(f, a) == IsInstance(a, f.isinstance)

\* The registry's entry for k: (predicate, name of the expected class).
RegistryEntry(k) ==
       CASE k = "artifactory" ->
              <<IsInstanceLambda("ArtifactoryBackendArgs"), "ArtifactoryBackendArgs">>
         [] k = "azurerm" ->
              <<IsInstanceLambda("AzureRMBackendArgs"), "AzureRMBackendArgs">>
         [] k = "consul" ->
              <<IsInstanceLambda("ConsulBackendArgs"), "ConsulBackendArgs">>
         [] k = "etcd" ->
              <<IsInstanceLambda("EtcdV2BackendArgs"), "EtcdV2BackendArgs">>
         [] k = "etcdv3" ->
              <<IsInstanceLambda("EtcdV3BackendArgs"), "EtcdV3BackendArgs">>
         [] k = "gcs" ->
              <<IsInstanceLambda("GcsBackendArgs"), "GcsBackendArgs">>
         [] k = "http" ->
              <<IsInstanceLambda("HttpBackendArgs"), "HttpBackendArgs">>
         [] k = "local" ->
              <<IsInstanceLambda("LocalBackendArgs"), "LocalBackendArgs">>
         [] k = "manta" ->
              <<IsInstanceLambda("MantaBackendArgs"), "MantaBackendArgs">>
         [] k = "postgres" ->
              <<IsInstanceLambda("PostgresBackendArgs"), "PostgresBackendArgs">>
         [] k = "remote" ->
              <<IsInstanceLambda("RemoteBackendArgs"), "RemoteBackendArgs">>
         [] k = "s3" ->
              <<IsInstanceLambda("S3BackendArgs"), "S3BackendArgs">>
         [] k = "swift" ->
              <<IsInstanceLambda("SwiftBackendArgs"), "SwiftBackendArgs">>

\* Mutant: the etcdv3 backend was never registered.
RegistryWithoutEtcdV3 ==
    [k \in {"artifactory", "azurerm", "consul", "etcd", "gcs", "http",
            "local", "manta", "postgres", "remote", "s3", "swift"} |->
       RegistryEntry(k)]

\* __VALIDATE_ARGS: backend_type -> (predicate, name of the expected class).
VALIDATE_ARGS ==
    [k \in {"artifactory", "azurerm", "consul", "etcd", "etcdv3", "gcs", "http",
            "local", "manta", "postgres", "remote", "s3", "swift"} |->
       RegistryEntry(k)]

\* pulumi.ResourceOptions, as far as this module reads or writes it.
ResourceOptions(id, protect) ==
    [t |-> "object", cls |-> "ResourceOptions", id |-> id, protect |-> protect]

\* The messages of the TypeErrors __init__ raises.
MissingResourceName == "Missing resource name argument (for URN creation)"
ResourceNameNotStr == "Expected resources name to be a string"
InvalidOptionsType == "Expected resource options to be a ResourceOptions instance"
MissingArgs == "Expected args to be an object"
BackendTypeNotStr == "Expected backend_type to be a string"
UnknownBackendKind == "Expected a valid backend type as value of backend_type"
BackendArgsMismatch(expected, kind) ==
    "Expected args to be an instance of " \o expected
        \o " when backend_type is \"" \o kind \o "\""

\* Mutant: an unknown backend type falls back to the local backend.
BackendValidateOrLocal(backend_type) ==
    IF backend_type.s \in DOMAIN VALIDATE_ARGS
    THEN <<VALIDATE_ARGS[backend_type.s]>>
    ELSE <<VALIDATE_ARGS["local"]>>

\* __VALIDATE_ARGS.get(backend_type, None): the entry, or nothing.  The
\* result is a sequence of length one or zero.
BackendValidate(backend_type) ==
    IF backend_type.s \in DOMAIN VALIDATE_ARGS
    THEN <<VALIDATE_ARGS[backend_type.s]>>
    ELSE <<>>

\* if not backend_validate[0]: the first element of the registry entry is
\* tested for truth; it is not called with args.
ArgsRejected(backend_validate, a) == ~Truthy(backend_validate[1])

\* Mutant: items of args.props whose value is None are left out.
BuildPropsSkipNone(backend_type, a) ==
    [k \in {"backend_type", "outputs"} \cup {j \in DOMAIN a.props : a.props[j] # PyNone} |->
       IF k \in DOMAIN a.props THEN a.props[k]
       ELSE IF k = "backend_type" THEN backend_type
       ELSE PyNone]

\* Mutant: the items of a mapping inside args.props are assigned at the
\* top level, in place of the mapping.
BuildPropsFlattensNested(backend_type, a) ==
    LET nested == {j \in DOMAIN a.props : a.props[j].t = "dict"}
        inner == UNION {DOMAIN a.props[j].d : j \in nested}
    IN [k \in {"backend_type", "outputs"} \cup (DOMAIN a.props \ nested) \cup inner |->
          IF k \in DOMAIN a.props THEN a.props[k]
          ELSE IF k \in inner
          THEN a.props[CHOOSE j \in nested : k \in DOMAIN a.props[j].d].d[k]
          ELSE IF k = "backend_type" THEN backend_type
          ELSE PyNone]

\* __props__: backend_type and outputs first, then every item of args.props
\* assigned over them.
BuildProps(backend_type, a) ==
    [k \in {"backend_type", "outputs"} \cup DOMAIN a.props |->
       IF k \in DOMAIN a.props THEN a.props[k]
       ELSE IF k = "backend_type" THEN backend_type
       ELSE PyNone]

\* Mutant: an id the caller's opts already carries is kept.
OptsWithIdKeepExisting(opts, resource_name) ==
    LET copied == IF opts = PyNone THEN ResourceOptions(PyNone, PyNone) ELSE opts
    IN IF copied.id = PyNone THEN [copied EXCEPT !.id = resource_name] ELSE copied

\* opts_with_id: a fresh ResourceOptions or a deep copy of opts, with id set.
OptsWithId(opts, resource_name) ==
    LET copied == IF opts = PyNone THEN ResourceOptions(PyNone, PyNone) ELSE opts
    IN [copied EXCEPT !.id = resource_name]

\* Whether an attribute can be read from, or set on, the value.
HasProps(a) == a.t = "object" /\ "props" \in DOMAIN a
CanSetAttr(v) == v.t = "object"

\* Mutant: the resource name is tested against None, not for being empty.
RemoteStateReferenceInitNameNotNone(resource_name, backend_type, a, opts) ==
    IF resource_name = PyNone
    THEN Raise("TypeError", MissingResourceName)
    ELSE IF ~IsStr(resource_name)
    THEN Raise("TypeError", ResourceNameNotStr)
    ELSE IF Truthy(opts) /\ ~IsInstance(opts, "ResourceOptions")
    THEN Raise("TypeError", InvalidOptionsType)
    ELSE IF ~Truthy(a)
    THEN Raise("TypeError", MissingArgs)
    ELSE IF ~IsStr(backend_type)
    THEN Raise("TypeError", BackendTypeNotStr)
    ELSE IF BackendValidate(backend_type) = <<>>
    THEN Raise("TypeError", UnknownBackendKind)
    ELSE IF ArgsRejected(BackendValidate(backend_type)[1], a)
    THEN Raise("TypeError",
               BackendArgsMismatch(BackendValidate(backend_type)[1][2], backend_type.s))
    ELSE IF ~HasProps(a)
    THEN Raise("AttributeError", "props")
    ELSE IF opts # PyNone /\ ~CanSetAttr(opts)
    THEN Raise("AttributeError", "id")
    ELSE [t |-> "super",
          type |-> "terraform:state:RemoteStateReference",
          name |-> resource_name,
          props |-> BuildProps(backend_type, a),
          opts |-> OptsWithId(opts, resource_name)]

\* RemoteStateReference.__init__ up to its last statement: the exception it
\* raises, or the arguments of super().__init__.
RemoteStateReferenceInit(resource_name, backend_type, a, opts) ==
    IF ~Truthy(resource_name)
    THEN Raise("TypeError", MissingResourceName)
    ELSE IF ~IsStr(resource_name)
    THEN Raise("TypeError", ResourceNameNotStr)
    ELSE IF Truthy(opts) /\ ~IsInstance(opts, "ResourceOptions")
    THEN Raise("TypeError", InvalidOptionsType)
    ELSE IF ~Truthy(a)
    THEN Raise("TypeError", MissingArgs)
    ELSE IF ~IsStr(backend_type)
    THEN Raise("TypeError", BackendTypeNotStr)
    ELSE IF BackendValidate(backend_type) = <<>>
    THEN Raise("TypeError", UnknownBackendKind)
    ELSE IF ArgsRejected(BackendValidate(backend_type)[1], a)
    THEN Raise("TypeError",
               BackendArgsMismatch(BackendValidate(backend_type)[1][2], backend_type.s))
    ELSE IF ~HasProps(a)
    THEN Raise("AttributeError", "props")
    ELSE IF opts # PyNone /\ ~CanSetAttr(opts)
    THEN Raise("AttributeError", "id")
    ELSE [t |-> "super",
          type |-> "terraform:state:RemoteStateReference",
          name |-> resource_name,
          props |-> BuildProps(backend_type, a),
          opts |-> OptsWithId(opts, resource_name)]

\* The outputs of a reference before the engine has read the state.
Unresolved == [t |-> "unresolved"]

\* Mutant: the reference is registered first and its arguments are checked
\* afterwards, so a failing call has already reached the engine.
ConstructRegistersFirst(resource_name, backend_type, a, opts) ==
    LET r == RemoteStateReferenceInit(resource_name, backend_type, a, opts) IN
    /\ raised' = IF IsRaise(r) THEN r ELSE NoExc
    /\ engine' = Append(engine, [type |-> "terraform:state:RemoteStateReference",
                                 name |-> resource_name,
                                 props |-> IF IsRaise(r) THEN <<>> ELSE r.props,
                                 opts |-> IF IsRaise(r) THEN opts ELSE r.opts])
    /\ refs' = Append(refs, [name |-> resource_name, outputs |-> Unresolved])
    /\ UNCHANGED <<args, handles>>

\* The whole constructor: on an exception nothing is created; otherwise the
\* request goes to the engine and the reference exists, outputs unresolved.
Construct(resource_name, backend_type, a, opts) ==
    LET r == RemoteStateReferenceInit(resource_name, backend_type, a, opts) IN
    /\ IF IsRaise(r)
       THEN raised' = r /\ refs' = refs /\ engine' = engine
       ELSE /\ raised' = NoExc
            /\ engine' = Append(engine, [type |-> r.type, name |-> r.name,
                                         props |-> r.props, opts |-> r.opts])
            /\ refs' = Append(refs, [name |-> r.name, outputs |-> Unresolved])
    /\ UNCHANGED <<args, handles>>

\* The backend kinds the documentation registers, and some that it does not.
RegisteredKinds ==
    {"artifactory", "azurerm", "consul", "etcd", "etcdv3", "gcs", "http", "local",
     "manta", "postgres", "remote", "s3", "swift"}

\* Every validly constructed args object whose required parameters are "v"
\* and of whose optional parameters at most NewOptionalSet are "v".
ArgsObjects ==
    {o \in UNION {{NewBackendArgs(sig.cls, kw) :
                     kw \in KwInputs(sig, {RequiredParams(sig)}, {PyStr("v")},
                                     {PyStr("v")}, NewOptionalSet)} :
                    sig \in BackendArgs} : ~IsRaise(o)}

NewNames == {PyStr(""), PyStr("a"), PyInt(7)}
NewKinds ==
    {PyStr(k) : k \in RegisteredKinds} \cup {PyStr("S3"), PyStr("not-a-backend"), PyInt(5)}
NewArgs == ArgsObjects \cup {PyNone, PyStr("junk"), Dict(<<>>)}
NewOpts ==
    {PyNone, ResourceOptions(PyNone, PyNone), ResourceOptions(PyStr("other"), PyBool(TRUE)),
     PyInt(0), PyStr("opts")}

NewCalls ==
    {[op |-> "RemoteStateReference", done |-> FALSE, resource_name |-> n,
      backend_type |-> k, args |-> a, opts |-> o] :
       n \in NewNames, k \in NewKinds, a \in NewArgs, o \in NewOpts}

CallRemoteStateReference ==
    /\ ~call.done
    /\ call.op = "RemoteStateReference"
    /\ Construct(call.resource_name, call.backend_type, call.args, call.opts)
    /\ call' = [call EXCEPT !.done = TRUE]

InitNew == call \in NewCalls /\ Fresh

NextNew == CallRemoteStateReference

\* One RemoteStateReference constructor call in a fresh program, over every
\* bounded combination of resource name, backend type, args and opts.
SpecNew == InitNew /\ [][NextNew]_vars

----------------------------------------------------------------------------
(* An args object is built and a reference is constructed from it. *)

\* The program passes the object the backend-args call returned to the
\* RemoteStateReference constructor, with a backend type whose registry
\* entry names the object's class.
NewFromArgs ==
    /\ call.done /\ call.op \in {sig.cls : sig \in BackendArgs}
    /\ raised = NoExc /\ HasProps(args)
    /\ refs = <<>>
    /\ \E k \in DOMAIN VALIDATE_ARGS :
          /\ VALIDATE_ARGS[k][2] = args.cls
          /\ Construct(PyStr("a"), PyStr(k), args, PyNone)
    /\ UNCHANGED call

NextBuild ==
    \/ NextArgs
    \/ NewFromArgs

\* One backend-args constructor call over every bounded argument list,
\* followed by the construction of a reference from its result.
SpecBuild == InitArgs /\ [][NextBuild]_vars

----------------------------------------------------------------------------
(* The same args and opts objects passed to two constructor calls.  Objects *)
(* have an identity here: the heap is the sequence of the objects created,  *)
(* and a reference to an object is its place in it.                         *)

Ref(at) == [t |-> "ref", at |-> at]
Deref(heap, v) == IF v.t = "ref" THEN heap[v.at] ELSE v

\* A call that creates an object returns the heap with the object added and
\* the reference to it.
Alloc(heap, obj) == [heap |-> Append(heap, obj), ref |-> Ref(Len(heap) + 1)]

\* copy.deepcopy(opts): a new object equal to opts; the values of a
\* ResourceOptions of this model are immutable and need no copy of their own.
DeepCopy(heap, opts) == Alloc(heap, heap[opts.at])

\* __props__ = dict() and the assignments to it: a new dict, filled from
\* backend_type and the items of args.props, which are only read.
BuildPropsOnHeap(heap, backend_type, a) ==
    Alloc(heap, Dict(BuildProps(backend_type, heap[a.at])))

\* Mutant: opts itself, not a copy of it, is given the id.
OptsWithIdOnHeapNoCopy(heap, opts, resource_name) ==
    LET c == IF opts = PyNone
             THEN Alloc(heap, ResourceOptions(PyNone, PyNone))
             ELSE [heap |-> heap, ref |-> opts]
    IN [heap |-> [c.heap EXCEPT ![c.ref.at].id = resource_name], ref |-> c.ref]

\* opts_with_id: a new ResourceOptions() or a deep copy of opts, whose id is
\* then set to the resource name.
OptsWithIdOnHeap(heap, opts, resource_name) ==
    LET c == IF opts = PyNone
             THEN Alloc(heap, ResourceOptions(PyNone, PyNone))
             ELSE DeepCopy(heap, opts)
    IN [heap |-> [c.heap EXCEPT ![c.ref.at].id = resource_name], ref |-> c.ref]

\* The program constructs the next reference from the objects it holds:
\* the constructor's tests, then __props__ and opts_with_id, then the
\* registration, which is handed the two new objects.
NewFromSameObjects ==
    /\ ~call.done /\ call.op = "reuse"
    /\ LET name == Head(call.todo)
           r == RemoteStateReferenceInit(name, call.backend_type,
                                         Deref(call.heap, call.args),
                                         Deref(call.heap, call.opts))
           p == BuildPropsOnHeap(call.heap, call.backend_type, call.args)
           o == OptsWithIdOnHeap(p.heap, call.opts, name)
       IN IF IsRaise(r)
          THEN /\ raised' = r
               /\ call' = [call EXCEPT !.done = TRUE]
               /\ UNCHANGED <<refs, engine>>
          ELSE /\ raised' = NoExc
               /\ call' = [call EXCEPT !.heap = o.heap,
                                       !.todo = Tail(call.todo),
                                       !.done = Len(call.todo) = 1]
               /\ engine' = Append(engine, [type |-> r.type, name |-> r.name,
                                            props |-> p.ref, opts |-> o.ref])
               /\ refs' = Append(refs, [name |-> r.name, outputs |-> Unresolved])
    /\ UNCHANGED <<args, handles>>

\* The resource names of the calls, the opts object and the args objects.
ReuseNames == {<<PyStr("a")>>, <<PyStr("a"), PyStr("b")>>, <<PyStr("b"), PyStr("a")>>,
               <<PyStr("a"), PyStr("")>>}
ReuseOpts == {ResourceOptions(PyNone, PyNone), ResourceOptions(PyStr("other"), PyBool(TRUE))}

\* The program holds an args object and maybe an opts object, and is about
\* to construct references from them under one or two resource names.
InitReuse ==
    /\ \E a \in ArgsObjects, names \in ReuseNames :
          \E k \in DOMAIN VALIDATE_ARGS :
             /\ VALIDATE_ARGS[k][2] = a.cls
             /\ \/ call = [op |-> "reuse", heap |-> <<a>>, args |-> Ref(1),
                            opts |-> PyNone, backend_type |-> PyStr(k),
                            todo |-> names, done |-> FALSE]
                \/ \E o \in ReuseOpts :
                      call = [op |-> "reuse", heap |-> <<a, o>>, args |-> Ref(1),
                              opts |-> Ref(2), backend_type |-> PyStr(k),
                              todo |-> names, done |-> FALSE]
    /\ Fresh

NextReuse == NewFromSameObjects

\* One or two references constructed from the same args and opts objects.
SpecReuse == InitReuse /\ [][NextReuse]_vars

----------------------------------------------------------------------------
(* The outputs of a reference and get_output. *)

\* The root outputs a state file can hold.
OutputMappings == {("x" :> PyInt(42)), ("x" :> PyInt(7) @@ "y" :> PyInt(1))}
OutputNames == {PyStr("x"), PyStr("missing")}

\* The engine completes the read of reference i: its outputs, unresolved
\* until now, become the mapping m.
Resolve(i, m) ==
    /\ i \in DOMAIN refs
    /\ refs[i].outputs = Unresolved
    /\ refs' = [refs EXCEPT ![i].outputs = Dict(m)]
    /\ UNCHANGED <<call, args, raised, engine, handles>>

\* An Output whose value is not known yet.
Pending == [t |-> "pending"]
Known(v) == [t |-> "known", v |-> v]
Failed(e) == [t |-> "failed", exc |-> e.exc, msg |-> e.msg]

\* d[k] on a dict: the value, or KeyError.
Subscript(d, k) ==
    IF k.s \in DOMAIN d.d THEN d.d[k.s] ELSE Raise("KeyError", k.s)

\* Mutant: the lambda returns the mapping, not the entry under the name.
OutputLambdaWholeMapping(arglist) == arglist[2]

\* lambda args: args[1][args[0]], applied to [name, outputs].
OutputLambda(arglist) == Subscript(arglist[2], arglist[1])

\* Mutant: get_output registers the reference with the engine once more.
GetOutputRegistersAgain(i, name) ==
    /\ i \in DOMAIN refs
    /\ Len(handles) < MaxHandles
    /\ handles' = Append(handles, [ref |-> i, name |-> name, value |-> Pending])
    /\ engine' = Append(engine, engine[i])
    /\ UNCHANGED <<call, args, raised, refs>>

\* Mutant: get_output starts a new read, so outputs is unresolved again.
GetOutputRefetches(i, name) ==
    /\ i \in DOMAIN refs
    /\ Len(handles) < MaxHandles
    /\ handles' = Append(handles, [ref |-> i, name |-> name, value |-> Pending])
    /\ refs' = [refs EXCEPT ![i].outputs = Unresolved]
    /\ UNCHANGED <<call, args, raised, engine>>

\* get_output(name) on reference i returns a new Output, the apply of the
\* lambda to all(name, self.outputs); nothing is sent to the engine.
GetOutput(i, name) ==
    /\ i \in DOMAIN refs
    /\ Len(handles) < MaxHandles
    /\ handles' = Append(handles, [ref |-> i, name |-> name, value |-> Pending])
    /\ UNCHANGED <<call, args, raised, refs, engine>>

\* Mutant: the apply does not wait for outputs and reads the placeholder as
\* a mapping that holds nothing yet.
RunApplyOnPlaceholder(h) ==
    /\ h \in DOMAIN handles
    /\ handles[h].value = Pending
    /\ LET o == refs[handles[h].ref].outputs
           r == OutputLambda(<<handles[h].name, IF o = Unresolved THEN Dict(<<>>) ELSE o>>)
       IN handles' = [handles EXCEPT ![h].value = IF IsRaise(r) THEN Failed(r) ELSE Known(r)]
    /\ UNCHANGED <<call, args, raised, refs, engine>>

\* Mutant: the lambda reads the outputs of the first reference, whichever
\* reference the handle was taken from.
RunApplyFirstReference(h) ==
    /\ h \in DOMAIN handles
    /\ handles[h].value = Pending
    /\ refs[1].outputs # Unresolved
    /\ LET r == OutputLambda(<<handles[h].name, refs[1].outputs>>) IN
       handles' = [handles EXCEPT ![h].value = IF IsRaise(r) THEN Failed(r) ELSE Known(r)]
    /\ UNCHANGED <<call, args, raised, refs, engine>>

\* The event loop runs the apply of handle h once both of its inputs are
\* known: the Output takes the lambda's result, or fails with its exception.
RunApply(h) ==
    /\ h \in DOMAIN handles
    /\ handles[h].value = Pending
    /\ refs[handles[h].ref].outputs # Unresolved
    /\ LET r == OutputLambda(<<handles[h].name, refs[handles[h].ref].outputs>>) IN
       handles' = [handles EXCEPT ![h].value = IF IsRaise(r) THEN Failed(r) ELSE Known(r)]
    /\ UNCHANGED <<call, args, raised, refs, engine>>

\* The constructor calls of a program run of Spec.
RunNames == {PyStr("a"), PyStr("b")}
RunKinds == {PyStr("local"), PyStr("not-a-backend")}
RunArgs == {LocalBackendArgs("path" :> PyStr("terraform.tfstate"))}
RunOpts == {PyNone}

NewRemoteStateReference ==
    /\ Len(refs) < MaxRefs
    /\ \E n \in RunNames, k \in RunKinds, a \in RunArgs, o \in RunOpts :
          Construct(n, k, a, o)
    /\ UNCHANGED call

Init == call = NoCall /\ Fresh

Next ==
    \/ NewRemoteStateReference
    \/ \E i \in 1..MaxRefs, m \in OutputMappings : Resolve(i, m)
    \/ \E i \in 1..MaxRefs, name \in OutputNames : GetOutput(i, name)
    \/ \E h \in 1..MaxHandles : RunApply(h)

\* A program run: references are created, the engine resolves their outputs
\* and get_output is called, in any order.
Spec == Init /\ [][Next]_vars

\* The event loop runs every callback that is ready.
FairSpec == Spec /\ \A h \in 1..MaxHandles : WF_vars(RunApply(h))

----------------------------------------------------------------------------
(* The translation of property names between the two naming conventions. *)

\* __SNAKE_TO_CAMEL_CASE_TABLE, entry by entry.
SNAKE_TO_CAMEL_CASE_TABLE ==
    "backend_type" :> "backendType" @@ "access_key" :> "accessKey" @@
    "access_token" :> "accessToken" @@ "account" :> "account" @@
    "address" :> "address" @@ "auth_url" :> "authUrl" @@ "bucket" :> "bucket" @@
    "ca_file" :> "caFile" @@ "cacert_file" :> "cacertFile" @@
    "cacert_path" :> "cacertPath" @@ "cert" :> "cert" @@
    "cert_file" :> "certFile" @@ "cert_path" :> "certPath" @@
    "client_id" :> "clientId" @@ "client_secret" :> "clientSecret" @@
    "conn_str" :> "connStr" @@ "container" :> "container" @@
    "container_name" :> "containerName" @@ "credentials" :> "credentials" @@
    "datacenter" :> "datacenter" @@ "domain_id" :> "domainId" @@
    "domain_name" :> "domainName" @@ "encryption_key" :> "encryptionKey" @@
    "endpoint" :> "endpoint" @@ "endpoints" :> "endpoints" @@
    "environment" :> "environment" @@ "external_id" :> "externalId" @@
    "gzip" :> "gzip" @@ "hostname" :> "hostname" @@ "http_auth" :> "http_auth" @@
    "iam_endpoint" :> "iamEndpoint" @@ "insecure" :> "insecure" @@
    "insecure_skip_tls_verify" :> "insecureSkipTlsVerify" @@ "key" :> "key" @@
    "key_file" :> "keyFile" @@ "key_id" :> "keyId" @@
    "key_material" :> "keyMaterial" @@ "key_path" :> "keyPath" @@
    "lock_address" :> "lockAddress" @@ "lock_method" :> "lockMethod" @@
    "msi_endpoint" :> "msiEndpoint" @@ "organization" :> "organization" @@
    "outputs" :> "outputs" @@ "password" :> "password" @@ "path" :> "path" @@
    "prefix" :> "prefix" @@ "profile" :> "profile" @@ "region" :> "region" @@
    "region_name" :> "regionName" @@ "repo" :> "repo" @@
    "resource_group_name" :> "resourceGroupName" @@ "role_arn" :> "roleArn" @@
    "sas_token" :> "sasToken" @@ "schema_name" :> "schemaName" @@
    "scheme" :> "scheme" @@ "secret_key" :> "secretKey" @@
    "session_name" :> "sessionName" @@
    "shared_credentials_file" :> "sharedCredentialsFile" @@
    "skip_cert_validation" :> "skipCertValidation" @@
    "storage_account_name" :> "storageAccountName" @@
    "sts_endpoint" :> "stsEndpoint" @@ "subpath" :> "subpath" @@
    "subscription_id" :> "subscriptionId" @@ "tenant_id" :> "tenantId" @@
    "tenant_name" :> "tenantName" @@ "token" :> "token" @@
    "unlock_address" :> "unlockAddress" @@ "unlock_method" :> "unlockMethod" @@
    "update_method" :> "updateMethod" @@ "url" :> "url" @@ "use_msi" :> "useMsi" @@
    "user" :> "user" @@ "user_id" :> "userId" @@ "username" :> "username" @@
    "workspace" :> "workspace" @@ "workspace_key_prefix" :> "workspaceKeyPrefix" @@
    "workspace_name" :> "workspaceName" @@ "workspace_prefix" :> "workspacePrefix"

\* __CAMEL_TO_SNAKE_CASE_TABLE, entry by entry.
CAMEL_TO_SNAKE_CASE_TABLE ==
    "backendType" :> "backend_type" @@ "accessKey" :> "access_key" @@
    "accessToken" :> "access_token" @@ "account" :> "account" @@
    "address" :> "address" @@ "authUrl" :> "auth_url" @@ "bucket" :> "bucket" @@
    "caFile" :> "ca_file" @@ "cacertFile" :> "cacert_file" @@
    "cacertPath" :> "cacert_path" @@ "cert" :> "cert" @@
    "certFile" :> "cert_file" @@ "certPath" :> "cert_path" @@
    "clientId" :> "client_id" @@ "clientSecret" :> "client_secret" @@
    "connStr" :> "conn_str" @@ "container" :> "container" @@
    "containerName" :> "container_name" @@ "credentials" :> "credentials" @@
    "datacenter" :> "datacenter" @@ "domainId" :> "domain_id" @@
    "domainName" :> "domain_name" @@ "encryptionKey" :> "encryption_key" @@
    "endpoint" :> "endpoint" @@ "endpoints" :> "endpoints" @@
    "environment" :> "environment" @@ "externalId" :> "external_id" @@
    "gzip" :> "gzip" @@ "hostname" :> "hostname" @@ "http_auth" :> "http_auth" @@
    "iamEndpoint" :> "iam_endpoint" @@ "insecure" :> "insecure" @@
    "insecureSkipTlsVerify" :> "insecure_skip_tls_verify" @@ "key" :> "key" @@
    "keyFile" :> "key_file" @@ "keyId" :> "key_id" @@
    "keyMaterial" :> "key_material" @@ "keyPath" :> "key_path" @@
    "lockAddress" :> "lock_address" @@ "lockMethod" :> "lock_method" @@
    "msiEndpoint" :> "msi_endpoint" @@ "organization" :> "organization" @@
    "outputs" :> "outputs" @@ "password" :> "password" @@ "path" :> "path" @@
    "prefix" :> "prefix" @@ "profile" :> "profile" @@ "region" :> "region" @@
    "regionName" :> "region_name" @@ "repo" :> "repo" @@
    "resourceGroupName" :> "resource_group_name" @@ "roleArn" :> "role_arn" @@
    "sasToken" :> "sas_token" @@ "schemaName" :> "schema_name" @@
    "scheme" :> "scheme" @@ "secretKey" :> "secret_key" @@
    "sessionName" :> "session_name" @@
    "sharedCredentialsFile" :> "shared_credentials_file" @@
    "skipCertValidation" :> "skip_cert_validation" @@
    "storageAccountName" :> "storage_account_name" @@
    "stsEndpoint" :> "sts_endpoint" @@ "subpath" :> "subpath" @@
    "subscriptionId" :> "subscription_id" @@ "tenantId" :> "tenant_id" @@
    "tenantName" :> "tenant_name" @@ "token" :> "token" @@
    "unlockAddress" :> "unlock_address" @@ "unlockMethod" :> "unlock_method" @@
    "updateMethod" :> "update_method" @@ "url" :> "url" @@ "useMsi" :> "use_msi" @@
    "user" :> "user" @@ "userId" :> "user_id" @@ "username" :> "username" @@
    "workspace" :> "workspace" @@ "workspaceKeyPrefix" :> "workspace_key_prefix" @@
    "workspaceName" :> "workspace_name" @@ "workspacePrefix" :> "workspace_prefix"

\* table.get(key): the entry, None when there is none, and TypeError for a
\* key that cannot be hashed.
DictGet(table, key) ==
    IF key.t = "dict"
    THEN Raise("TypeError", "unhashable type")
    ELSE IF IsStr(key) /\ key.s \in DOMAIN table
    THEN PyStr(table[key.s])
    ELSE PyNone

\* a or b, where evaluating a may have raised.
Or(a, b) == IF IsRaise(a) THEN a ELSE IF Truthy(a) THEN a ELSE b

\* Mutant: the name is returned as it came, whatever the table holds.
TranslateOutputPropertyUntranslated(prop) == prop

\* translate_output_property: from the engine's name to the Python name.
translate_output_property(prop) ==
    Or(DictGet(CAMEL_TO_SNAKE_CASE_TABLE, prop), prop)

\* Mutant: the table is subscripted, so a name it does not hold is an error.
TranslateInputPropertySubscript(prop) ==
    IF prop.t = "dict"
    THEN Raise("TypeError", "unhashable type")
    ELSE IF IsStr(prop) /\ prop.s \in DOMAIN SNAKE_TO_CAMEL_CASE_TABLE
    THEN PyStr(SNAKE_TO_CAMEL_CASE_TABLE[prop.s])
    ELSE Raise("KeyError", "prop")

\* translate_input_property: from the Python name to the engine's name.
translate_input_property(prop) ==
    Or(DictGet(SNAKE_TO_CAMEL_CASE_TABLE, prop), prop)

\* One translation returns: it is logged with its argument and result, the
\* next one takes its result, and an exception ends the call.
Translated(r) ==
    /\ call' = [call EXCEPT !.todo = Tail(call.todo),
                            !.prop = IF IsRaise(r) THEN call.prop ELSE r,
                            !.did = Append(call.did, [op |-> Head(call.todo),
                                                      prop |-> call.prop,
                                                      result |-> r]),
                            !.done = IsRaise(r) \/ Len(call.todo) = 1]
    /\ raised' = IF IsRaise(r) THEN r ELSE NoExc
    /\ UNCHANGED <<args, refs, engine, handles>>

CallTranslateInputProperty ==
    /\ ~call.done /\ call.op = "translate"
    /\ Head(call.todo) = "translate_input_property"
    /\ Translated(translate_input_property(call.prop))

CallTranslateOutputProperty ==
    /\ ~call.done /\ call.op = "translate"
    /\ Head(call.todo) = "translate_output_property"
    /\ Translated(translate_output_property(call.prop))

\* The names translated: every key of either table, names neither table
\* holds, and values that are not names.
TranslateNames ==
    {PyStr(k) : k \in DOMAIN SNAKE_TO_CAMEL_CASE_TABLE \cup DOMAIN CAMEL_TO_SNAKE_CASE_TABLE}
    \cup {PyStr("workspaces"), PyStr("not_a_field"), PyStr("notAField"), PyStr("")}
    \cup {PyNone, PyInt(5), Dict(<<>>)}

\* A property name goes to the engine, comes from it, or makes the round
\* trip in either direction.
TranslateSequences ==
    {<<"translate_input_property">>, <<"translate_output_property">>,
     <<"translate_input_property", "translate_output_property">>,
     <<"translate_output_property", "translate_input_property">>}

InitTranslate ==
    /\ \E n \in TranslateNames, todo \in TranslateSequences :
          call = [op |-> "translate", prop |-> n, todo |-> todo, did |-> <<>>,
                  done |-> FALSE]
    /\ Fresh

NextTranslate ==
    \/ CallTranslateInputProperty
    \/ CallTranslateOutputProperty

\* One or two translations of one name, over every name of TranslateNames.
SpecTranslate == InitTranslate /\ [][NextTranslate]_vars

----------------------------------------------------------------------------
(* scripts/downstream_checks.py: the pull requests that upgrade the bridge  *)
(* in the downstream providers are listed, and the successful ones closed.  *)
(* A title and a repository name are sequences of words, so that endswith   *)
(* and removeprefix are computed and not assumed.                           *)

\* How many pull requests the search returns.
MaxPRs == 2
\* How many checks the last commit of a pull request has.
MaxChecks == 2

NOT_BRIDGED_PROVIDERS == {<<"aws-apigateway">>, <<"awsx">>, <<"eks">>, <<"terraform-module">>}

\* The providers providers.json lists.
ProvidersJson == {<<"aws">>, <<"random">>, <<"eks">>}

\* get_provider_map: every listed provider that is bridged, not seen yet.
get_provider_map == [k \in ProvidersJson \ NOT_BRIDGED_PROVIDERS |-> FALSE]

\* s.endswith(suffix) and s.removeprefix(prefix).
EndsWith(s, suffix) ==
    /\ Len(s) >= Len(suffix)
    /\ SubSeq(s, Len(s) - Len(suffix) + 1, Len(s)) = suffix
RemovePrefix(s, prefix) ==
    IF Len(s) >= Len(prefix) /\ SubSeq(s, 1, Len(prefix)) = prefix
    THEN SubSeq(s, Len(prefix) + 1, Len(s))
    ELSE s

\* pr_suffix = f"Upgrade pulumi-terraform-bridge to {c}".
PrSuffix(c) == <<"Upgrade", "pulumi-terraform-bridge", "to", c>>

\* A check run as the query returns it; a context that is not a check run
\* comes as the empty dict.
CheckRun(name, status, conclusion) ==
    Dict([name |-> name, status |-> status, conclusion |-> conclusion])
EmptyCheck == Dict(<<>>)

RECURSIVE GetSentinelStatusAnyName(_)
\* Mutant: the name of the check is not looked at.
GetSentinelStatusAnyName(checks) ==
    IF checks = <<>>
    THEN "UNKNOWN"
    ELSE LET check == Head(checks) IN
         IF ~Truthy(check)
         THEN GetSentinelStatusAnyName(Tail(checks))
         ELSE IF check.d.status # "COMPLETED"
         THEN check.d.status
         ELSE check.d.conclusion

RECURSIVE get_sentinel_status(_)
\* get_sentinel_status: empty checks are skipped; the first check named
\* sentinel gives its status while it is not completed and its conclusion
\* once it is; without such a check the status is UNKNOWN.
get_sentinel_status(checks) ==
    IF checks = <<>>
    THEN "UNKNOWN"
    ELSE LET check == Head(checks) IN
         IF ~Truthy(check)
         THEN get_sentinel_status(Tail(checks))
         ELSE IF check.d.name = "sentinel"
         THEN IF check.d.status # "COMPLETED"
              THEN check.d.status
              ELSE check.d.conclusion
         ELSE get_sentinel_status(Tail(checks))

\* What one iteration of the loop of main prints for a pull request whose
\* title matched.
Printed(sentinel_status, closed, url, show_closed, only_failed) ==
    IF sentinel_status = "SUCCESS"
    THEN IF ~only_failed THEN << <<"SUCCESS", url>> >> ELSE <<>>
    ELSE IF ~closed \/ show_closed
    THEN IF sentinel_status = "SKIPPED"
         THEN << <<"FAILED:", url>> >>
         ELSE << <<sentinel_status, url>> >>
    ELSE <<>>

\* One iteration of the loop of main, on the next pull request of the
\* search result.  gh pr close may exit with an error, which ends main.
MainNextPr ==
    /\ ~call.done /\ call.op = "main"
    /\ call.i < Len(call.prs)
    /\ LET pr == call.prs[call.i + 1]
           sentinel_status == get_sentinel_status(pr.checks)
           name == RemovePrefix(pr.repo, <<"pulumi-">>)
           seen == [k \in DOMAIN call.provider_map \cup {name} |->
                      IF k = name THEN TRUE ELSE call.provider_map[k]]
       IN IF ~EndsWith(pr.title, PrSuffix(call.hash))
          THEN /\ call' = [call EXCEPT !.i = call.i + 1]
               /\ raised' = raised
          ELSE LET out == call.out \o Printed(sentinel_status, pr.closed, pr.url,
                                               call.show_closed, call.only_failed)
               IN IF sentinel_status = "SUCCESS" /\ ~pr.closed
                  THEN \E ok \in BOOLEAN :
                          /\ call' = [call EXCEPT !.i = call.i + 1,
                                                  !.provider_map = seen,
                                                  !.out = out,
                                                  !.gh = Append(call.gh, <<"gh", "pr", "close", pr.url>>),
                                                  !.done = ~ok]
                          /\ raised' = IF ok THEN raised
                                       ELSE Raise("CalledProcessError", "gh pr close")
                  ELSE /\ call' = [call EXCEPT !.i = call.i + 1,
                                               !.provider_map = seen,
                                               !.out = out]
                       /\ raised' = raised
    /\ UNCHANGED <<args, refs, engine, handles>>

\* After the loop: every provider without a matching pull request is
\* reported as waiting, and main returns.
MainReportWaiting ==
    /\ ~call.done /\ call.op = "main"
    /\ call.i = Len(call.prs)
    /\ call' = [call EXCEPT !.waiting = {k \in DOMAIN call.provider_map :
                                            ~call.provider_map[k]},
                            !.done = TRUE]
    /\ UNCHANGED <<args, raised, refs, engine, handles>>

\* The search results of the model: titles that end with the suffix for
\* hash "abc" or do not, open and closed pull requests, and every list of
\* at most MaxChecks of these checks.
Titles ==
    {<<"Upgrade", "pulumi-terraform-bridge", "to", "abc">>,
     <<"Upgrade", "pulumi-terraform-bridge", "to", "abc", "again">>,
     <<"Upgrade", "pulumi-terraform-bridge", "to", "def">>}
Checks ==
    {EmptyCheck,
     CheckRun("sentinel", "COMPLETED", "SUCCESS"),
     CheckRun("sentinel", "COMPLETED", "SKIPPED"),
     CheckRun("sentinel", "IN_PROGRESS", "null"),
     CheckRun("build", "COMPLETED", "SUCCESS")}
CheckLists == UNION {[1..n -> Checks] : n \in 0..MaxChecks}
RepoOf(i) == IF i = 1 THEN <<"pulumi-", "aws">> ELSE <<"pulumi-", "random">>

\* main after its arguments are parsed and its two queries are answered.
InitMain ==
    /\ \E n \in 0..MaxPRs, show_closed \in BOOLEAN, only_failed \in BOOLEAN :
          \E titles \in [1..n -> Titles], closed \in [1..n -> BOOLEAN],
             checks \in [1..n -> CheckLists] :
             call = [op |-> "main", hash |-> "abc",
                     show_closed |-> show_closed, only_failed |-> only_failed,
                     prs |-> [i \in 1..n |->
                                [title |-> titles[i], closed |-> closed[i],
                                 checks |-> checks[i], url |-> i, repo |-> RepoOf(i)]],
                     provider_map |-> get_provider_map,
                     i |-> 0, out |-> <<>>, gh |-> <<>>, waiting |-> {},
                     done |-> FALSE]
    /\ Fresh

NextMain ==
    \/ MainNextPr
    \/ MainReportWaiting

\* One run of main over every bounded search result.
SpecMain == InitMain /\ [][NextMain]_vars

----------------------------------------------------------------------------
(* scripts/tf_schema_splitter.py: a nested provider schema is split into    *)
(* resource rows and attribute rows.  Dicts are objects on a heap, since    *)
(* add_resource and add_attribute change the dict they are handed; a dict   *)
(* keeps its items in insertion order, as a sequence of key-value pairs.    *)
(* The three parse functions call each other: their calls are frames on a   *)
(* stack, and an action is the run of one function between two calls.       *)

\* The values of the enum Element.
Element == [RESOURCE_ELEMENT |-> "resource_element",
            ATTRIBUTE_ELEMENT |-> "attribute_element"]

\* A dict object and one of its items.
ODict(items) == [t |-> "odict", items |-> items]
Item(k, v) == [k |-> k, v |-> v]

\* key in d, d.get(key), d[key] = value, and d without one key.
Has(d, key) == \E i \in DOMAIN d.items : d.items[i].k = key
Get(d, key) ==
    IF Has(d, key)
    THEN d.items[CHOOSE i \in DOMAIN d.items : d.items[i].k = key].v
    ELSE PyNone
Set(d, key, value) ==
    IF Has(d, key)
    THEN ODict([i \in DOMAIN d.items |->
                  IF d.items[i].k = key THEN Item(key, value) ELSE d.items[i]])
    ELSE ODict(Append(d.items, Item(key, value)))
Without(d, key) ==
    LET Keep(it) == it.k # key IN ODict(SelectSeq(d.items, Keep))

\* Mutant: the row is named but not given its provider.
AddAttributeWithoutProvider(st, name, attribute) ==
    [st EXCEPT !.heap[attribute.at] = Set(@, "Name", PyStr(name)),
               !.attributes = Append(@, attribute)]

\* add_attribute: Provider and Name are set on the dict handed in, which is
\* appended to attributes.
add_attribute(st, name, attribute) ==
    [st EXCEPT !.heap[attribute.at] =
                  Set(Set(@, "Provider", PyStr(st.provider_name)), "Name", PyStr(name)),
               !.attributes = Append(@, attribute)]

\* add_resource: the same for resources.
add_resource(st, name, resource) ==
    [st EXCEPT !.heap[resource.at] =
                  Set(Set(@, "Provider", PyStr(st.provider_name)), "Name", PyStr(name)),
               !.resources = Append(@, resource)]

\* A call in progress: the function, its arguments, its locals, and where
\* it stands ("start", "loop", or "called" while a call it made runs).
Frame(fn, schema, name) ==
    [fn |-> fn, schema |-> schema, name |-> name, pc |-> "start",
     res |-> PyNone, items |-> <<>>, schema_list |-> <<>>]

\* The frame on top of the stack, and whether it is fn's at pc.
Top == call.stack[Len(call.stack)]
Running(fn, pc) ==
    /\ ~call.done /\ call.op = "split"
    /\ call.stack # <<>>
    /\ Top.fn = fn /\ Top.pc = pc

\* parse_res_or_attr, to its call: an element with a Schema key is parsed as
\* a resource, any other as an attribute.
ParseResOrAttrCall ==
    /\ Running("parse_res_or_attr", "start")
    /\ LET callee == IF Has(call.st.heap[Top.schema.at], "Schema")
                     THEN "parse_resource" ELSE "parse_attribute"
       IN call' = [call EXCEPT !.stack = Append([call.stack EXCEPT ![Len(call.stack)].pc = "called"],
                                                Frame(callee, Top.schema, Top.name))]
    /\ UNCHANGED <<args, raised, refs, engine, handles>>

\* parse_res_or_attr, from the return of its call: the dict returned is
\* recorded as a resource or as an attribute, and the kind is returned.
ParseResOrAttrReturn ==
    /\ Running("parse_res_or_attr", "called")
    /\ LET resource == Has(call.st.heap[Top.schema.at], "Schema")
       IN call' = [call EXCEPT !.st = IF resource
                                      THEN add_resource(call.st, Top.name, call.ret)
                                      ELSE add_attribute(call.st, Top.name, call.ret),
                               !.ret = PyStr(IF resource THEN Element.RESOURCE_ELEMENT
                                             ELSE Element.ATTRIBUTE_ELEMENT),
                               !.stack = SubSeq(call.stack, 1, Len(call.stack) - 1)]
    /\ UNCHANGED <<args, raised, refs, engine, handles>>

\* parse_attribute, to its call or its return: res is a new dict with
\* every item but Elem; an Elem that is true is parsed under "<name>.elem".
ParseAttributeStart ==
    /\ Running("parse_attribute", "start")
    /\ LET res == Alloc(call.st.heap, Without(call.st.heap[Top.schema.at], "Elem"))
           elem == Get(call.st.heap[Top.schema.at], "Elem")
       IN call' = IF elem # PyNone /\ call.st.heap[elem.at].items # <<>>
                  THEN [call EXCEPT !.st.heap = res.heap,
                                    !.stack = Append([call.stack EXCEPT
                                                         ![Len(call.stack)].pc = "called",
                                                         ![Len(call.stack)].res = res.ref],
                                                     Frame("parse_res_or_attr", elem,
                                                           Top.name \o ".elem"))]
                  ELSE [call EXCEPT !.st.heap = res.heap,
                                    !.ret = res.ref,
                                    !.stack = SubSeq(call.stack, 1, Len(call.stack) - 1)]
    /\ UNCHANGED <<args, raised, refs, engine, handles>>

\* parse_attribute, from the return of parse_res_or_attr: the element's name
\* is stored in res under the kind returned, and res is returned.
ParseAttributeReturn ==
    /\ Running("parse_attribute", "called")
    /\ call' = [call EXCEPT !.st.heap[Top.res.at] =
                                Set(@, call.ret.s, PyStr(Top.name \o ".elem")),
                            !.ret = Top.res,
                            !.stack = SubSeq(call.stack, 1, Len(call.stack) - 1)]
    /\ UNCHANGED <<args, raised, refs, engine, handles>>

\* parse_resource, to its loop: res is a new dict with every item but
\* Schema, and the loop is over the items of Schema, if there is one.
ParseResourceStart ==
    /\ Running("parse_resource", "start")
    /\ LET res == Alloc(call.st.heap, Without(call.st.heap[Top.schema.at], "Schema"))
           schema == Get(call.st.heap[Top.schema.at], "Schema")
       IN call' = [call EXCEPT !.st.heap = res.heap,
                               !.stack = [call.stack EXCEPT
                                   ![Len(call.stack)].pc = "loop",
                                   ![Len(call.stack)].res = res.ref,
                                   ![Len(call.stack)].items =
                                       IF schema = PyNone THEN <<>>
                                       ELSE call.st.heap[schema.at].items]]
    /\ UNCHANGED <<args, raised, refs, engine, handles>>

\* The loop of parse_resource, to its call: the next attribute is parsed
\* under "<name>.<attribute_name>".
ParseResourceNext ==
    /\ Running("parse_resource", "loop")
    /\ Top.items # <<>>
    /\ call' = [call EXCEPT !.stack = Append([call.stack EXCEPT ![Len(call.stack)].pc = "called"],
                                             Frame("parse_attribute", Head(Top.items).v,
                                                   Top.name \o "." \o Head(Top.items).k))]
    /\ UNCHANGED <<args, raised, refs, engine, handles>>

\* The loop of parse_resource, from the return of parse_attribute: the dict
\* returned is recorded under the full name, which is appended to
\* schema_list.
ParseResourceAdd ==
    /\ Running("parse_resource", "called")
    /\ LET full_name == Top.name \o "." \o Head(Top.items).k
       IN call' = [call EXCEPT !.st = add_attribute(call.st, full_name, call.ret),
                               !.stack = [call.stack EXCEPT
                                   ![Len(call.stack)].pc = "loop",
                                   ![Len(call.stack)].items = Tail(Top.items),
                                   ![Len(call.stack)].schema_list =
                                       Append(Top.schema_list, PyStr(full_name))]]
    /\ UNCHANGED <<args, raised, refs, engine, handles>>

\* parse_resource after its loop: Schema becomes the list of names, and res
\* is returned.
ParseResourceReturn ==
    /\ Running("parse_resource", "loop")
    /\ Top.items = <<>>
    /\ call' = [call EXCEPT !.st.heap[Top.res.at] = Set(@, "Schema", [t |-> "list", l |-> Top.schema_list]),
                            !.ret = Top.res,
                            !.stack = SubSeq(call.stack, 1, Len(call.stack) - 1)]
    /\ UNCHANGED <<args, raised, refs, engine, handles>>

\* How deep the elements of an attribute nest.
MaxDepth == 2

RECURSIVE AttributeSchemas(_, _)
RECURSIVE ElemSchemas(_, _)
\* json.load makes every dict of the schema file an object of its own.  The
\* attribute schemas whose elements nest at most depth deep, loaded after
\* the objects of heap: plain ones, one of them with a Name of its own, and
\* ones with an Elem.
AttributeSchemas(heap, depth) ==
    {Alloc(heap, ODict(<<Item("Type", PyStr("string"))>>)),
     Alloc(heap, ODict(<<Item("Name", PyStr("n")), Item("Type", PyStr("bool"))>>))}
    \cup (IF depth = 0 THEN {}
          ELSE {Alloc(e.heap, ODict(<<Item("Type", PyStr("list")), Item("Elem", e.ref)>>)) :
                  e \in ElemSchemas(heap, depth - 1)})
\* What Elem can be: an attribute schema, a resource with one attribute, an
\* empty dict or null.
ElemSchemas(heap, depth) ==
    AttributeSchemas(heap, depth)
    \cup {LET s == Alloc(a.heap, ODict(<<Item("x", a.ref)>>))
          IN Alloc(s.heap, ODict(<<Item("Schema", s.ref), Item("MaxItems", PyStr("1"))>>)) :
            a \in AttributeSchemas(heap, depth)}
    \cup {Alloc(heap, ODict(<<>>)), [heap |-> heap, ref |-> PyNone]}

\* The resources of a ResourcesMap: a description and one or two attributes.
ResourceSchemas ==
    {LET s == Alloc(a.heap, ODict(<<Item("id", a.ref)>>))
     IN Alloc(s.heap, ODict(<<Item("Description", PyStr("d")), Item("Schema", s.ref)>>)) :
       a \in AttributeSchemas(<<>>, MaxDepth)}
    \cup UNION {{LET s == Alloc(b.heap, ODict(<<Item("id", a.ref), Item("tags", b.ref)>>))
                 IN Alloc(s.heap, ODict(<<Item("Schema", s.ref)>>)) :
                   b \in AttributeSchemas(a.heap, MaxDepth)} :
                a \in AttributeSchemas(<<>>, 1)}
    \cup {Alloc(<<>>, ODict(<<Item("Description", PyStr("d"))>>))}

\* The next call of the run is made: parse_resource on a resource of the
\* ResourcesMap, as in the loop of main, or parse_res_or_attr on an element.
SplitCall ==
    /\ ~call.done /\ call.op = "split"
    /\ call.stack = <<>> /\ ~call.called
    /\ LET c == Head(call.todo)
       IN call' = [call EXCEPT !.stack = <<Frame(c.fn, c.schema, c.name)>>,
                               !.called = TRUE]
    /\ UNCHANGED <<args, raised, refs, engine, handles>>

\* The call returns: main records the dict parse_resource returned as a
\* resource under its name; the kind parse_res_or_attr returned is kept.
SplitReturn ==
    /\ ~call.done /\ call.op = "split"
    /\ call.stack = <<>> /\ call.called
    /\ LET c == Head(call.todo)
       IN call' = [call EXCEPT !.st = IF c.fn = "parse_resource"
                                      THEN add_resource(call.st, c.name, call.ret)
                                      ELSE call.st,
                               !.returned = IF c.fn = "parse_resource" THEN call.returned
                                            ELSE call.ret.s,
                               !.called = FALSE,
                               !.todo = Tail(call.todo),
                               !.done = Len(call.todo) = 1]
    /\ UNCHANGED <<args, raised, refs, engine, handles>>

\* The frame of a run: the Results object with the heap, the calls to make,
\* the stack of the calls in progress with the value last returned, and the
\* number of objects the schema file was loaded into.
SplitFrame(provider_name, heap, todo) ==
    [op |-> "split",
     st |-> [provider_name |-> provider_name, heap |-> heap,
             resources |-> <<>>, attributes |-> <<>>],
     todo |-> todo, stack |-> <<>>, called |-> FALSE, ret |-> PyNone,
     loaded |-> Len(heap), returned |-> "", done |-> FALSE]

\* The schema file is loaded and Results is empty; what follows is one
\* parse_resource call, two of them, or one parse_res_or_attr call.
InitSplit ==
    /\ \E provider_name \in {"aws", "gcp"} :
          \/ \E r \in ResourceSchemas :
                call = SplitFrame(provider_name, r.heap,
                                  <<[fn |-> "parse_resource", schema |-> r.ref, name |-> "res"]>>)
          \/ \E r \in ResourceSchemas :
                LET a == Alloc(r.heap, ODict(<<Item("Type", PyStr("string"))>>))
                    s == Alloc(a.heap, ODict(<<Item("id", a.ref)>>))
                    other == Alloc(s.heap, ODict(<<Item("Schema", s.ref)>>))
                IN call = SplitFrame(provider_name, other.heap,
                                     <<[fn |-> "parse_resource", schema |-> r.ref, name |-> "res"],
                                       [fn |-> "parse_resource", schema |-> other.ref,
                                        name |-> "other"]>>)
          \/ \E e \in ElemSchemas(<<>>, MaxDepth) :
                /\ e.ref.t = "ref"
                /\ call = SplitFrame(provider_name, e.heap,
                                     <<[fn |-> "parse_res_or_attr", schema |-> e.ref,
                                        name |-> "attr.elem"]>>)
    /\ Fresh

NextSplit ==
    \/ SplitCall
    \/ SplitReturn
    \/ ParseResOrAttrCall
    \/ ParseResOrAttrReturn
    \/ ParseAttributeStart
    \/ ParseAttributeReturn
    \/ ParseResourceStart
    \/ ParseResourceNext
    \/ ParseResourceAdd
    \/ ParseResourceReturn

\* The split of every bounded schema; a call in progress takes its next
\* step.
FairSpecSplit == InitSplit /\ [][NextSplit]_vars /\ WF_vars(NextSplit)

----------------------------------------------------------------------------
(* The claims.  What follows states the documented behaviour; nothing       *)
(* below is used by the model above.                                        *)

\* The class each backend kind is documented to take its arguments from.
VariantOfKind ==
    [k \in RegisteredKinds |->
       CASE k = "artifactory" -> "ArtifactoryBackendArgs"
         [] k = "azurerm" -> "AzureRMBackendArgs"
         [] k = "consul" -> "ConsulBackendArgs"
         [] k = "etcd" -> "EtcdV2BackendArgs"
         [] k = "etcdv3" -> "EtcdV3BackendArgs"
         [] k = "gcs" -> "GcsBackendArgs"
         [] k = "http" -> "HttpBackendArgs"
         [] k = "local" -> "LocalBackendArgs"
         [] k = "manta" -> "MantaBackendArgs"
         [] k = "postgres" -> "PostgresBackendArgs"
         [] k = "remote" -> "RemoteBackendArgs"
         [] k = "s3" -> "S3BackendArgs"
         [] k = "swift" -> "SwiftBackendArgs"]

\* The RemoteStateReference call of SpecNew has been evaluated.
NewDone == call.done /\ call.op = "RemoteStateReference"
NewSucceeded == NewDone /\ raised = NoExc
ValidName == IsStr(call.resource_name) /\ call.resource_name.s # ""
OptsAbsentOrValid == call.opts = PyNone \/ IsInstance(call.opts, "ResourceOptions")
KindRegistered == IsStr(call.backend_type) /\ call.backend_type.s \in RegisteredKinds
KindUnknownStr == IsStr(call.backend_type) /\ call.backend_type.s \notin RegisteredKinds
IsArgsObject(a) == HasProps(a) /\ a.cls \in {sig.cls : sig \in BackendArgs}
NothingRegistered == refs = <<>> /\ engine = <<>>

\* C1 (as claimed): with a non-empty string name and a registered kind k, an
\* args object of another kind's class makes the constructor fail with the
\* backend-args-mismatch error, and no reference is created.
C1_MismatchRejected ==
    (/\ NewDone /\ ValidName /\ OptsAbsentOrValid /\ KindRegistered
     /\ IsArgsObject(call.args)
     /\ call.args.cls # VariantOfKind[call.backend_type.s])
    => /\ raised = Raise("TypeError",
                         BackendArgsMismatch(VariantOfKind[call.backend_type.s],
                                             call.backend_type.s))
       /\ NothingRegistered

\* C2: with a non-empty string name, a registered kind and a validly
\* constructed args object of that kind's class, the constructor raises
\* nothing and the reference is registered with the engine under its name.
C2_MatchingSucceeds ==
    (/\ NewDone /\ ValidName /\ OptsAbsentOrValid /\ KindRegistered
     /\ IsArgsObject(call.args)
     /\ call.args.cls = VariantOfKind[call.backend_type.s])
    => /\ raised = NoExc
       /\ Len(refs) = 1 /\ Len(engine) = 1
       /\ engine[1].name = call.resource_name
       /\ refs[1].name = call.resource_name

C2_Witness ==
    /\ NewSucceeded
    /\ call.backend_type = PyStr("remote")
    /\ IsInstance(call.args, "RemoteBackendArgs")
    /\ Len(engine) = 1

\* C3 (as claimed): a backend kind string that is not registered makes the
\* constructor fail with the unknown-backend-kind error whatever the args
\* value is, and nothing is registered.
C3_UnknownKindAlwaysUnknownError ==
    (NewDone /\ ValidName /\ OptsAbsentOrValid /\ KindUnknownStr)
    => raised = Raise("TypeError", UnknownBackendKind) /\ NothingRegistered

\* C3 (amended): a backend kind string that is not registered makes the
\* constructor fail and register nothing whatever the args value is: with
\* the unknown-backend-kind error when args is truthy, and with the
\* missing-args error, which is tested first, when args is None or falsy.
C3_UnknownKindFails ==
    (NewDone /\ ValidName /\ OptsAbsentOrValid /\ KindUnknownStr)
    => /\ raised = Raise("TypeError",
                         IF Truthy(call.args) THEN UnknownBackendKind ELSE MissingArgs)
       /\ NothingRegistered

C3_Witness ==
    /\ NewDone /\ ValidName /\ OptsAbsentOrValid
    /\ call.backend_type = PyStr("not-a-backend")
    /\ IsInstance(call.args, "LocalBackendArgs")
    /\ raised = Raise("TypeError", UnknownBackendKind)

\* C4: the registry's keys are exactly the 13 documented identifiers, case
\* sensitive; each kind's predicate accepts an args object iff it is an
\* instance of that kind's own class, which is also the class the entry
\* names; and no two kinds share a class.
C4_RegistryExact ==
    /\ DOMAIN VALIDATE_ARGS = RegisteredKinds
    /\ Cardinality(DOMAIN VALIDATE_ARGS) = 13
    /\ BackendValidate(PyStr("S3")) = <<>>
    /\ \A k \in RegisteredKinds :
          /\ VALIDATE_ARGS[k][2] = VariantOfKind[k]
          /\ (NewDone /\ IsArgsObject(call.args))
                => (Apply(VALIDATE_ARGS[k][1], call.args)
                      <=> call.args.cls = VariantOfKind[k])
    /\ \A k1, k2 \in RegisteredKinds :
          k1 # k2 => VALIDATE_ARGS[k1][1] # VALIDATE_ARGS[k2][1]

C4_Witness ==
    /\ NewDone
    /\ call.backend_type = PyStr("etcd")
    /\ IsInstance(call.args, "EtcdV3BackendArgs")
    /\ ~Apply(VALIDATE_ARGS["etcd"][1], call.args)
    /\ Apply(VALIDATE_ARGS["etcdv3"][1], call.args)

\* C5: on every successful construction the options handed to the engine
\* are a ResourceOptions whose id is the resource name, whether opts was
\* omitted or given, also when it was given with another id.
C5_IdForced ==
    NewSucceeded
    => /\ Len(engine) = 1
       /\ IsInstance(engine[1].opts, "ResourceOptions")
       /\ engine[1].opts.id = call.resource_name
       /\ engine[1].name = call.resource_name

C5_Witness ==
    /\ NewSucceeded
    /\ call.opts = ResourceOptions(PyStr("other"), PyBool(TRUE))
    /\ engine[1].opts = ResourceOptions(PyStr("a"), PyBool(TRUE))

\* C6: on every successful construction the property set handed to the
\* engine holds backend_type = the given kind, outputs = None and every key
\* of args.props with its value, and nothing else; args.props has neither a
\* backend_type nor an outputs key.
C6_PropsFlattened ==
    NewSucceeded
    => /\ Len(engine) = 1
       /\ DOMAIN engine[1].props = {"backend_type", "outputs"} \cup DOMAIN call.args.props
       /\ {"backend_type", "outputs"} \cap DOMAIN call.args.props = {}
       /\ engine[1].props["backend_type"] = call.backend_type
       /\ engine[1].props["outputs"] = PyNone
       /\ \A k \in DOMAIN call.args.props : engine[1].props[k] = call.args.props[k]

C6_Witness ==
    /\ NewSucceeded
    /\ call.backend_type = PyStr("s3")
    /\ IsInstance(call.args, "S3BackendArgs")
    /\ call.args.props["region"] = PyStr("v")
    /\ engine[1].props["region"] = PyStr("v")
    /\ engine[1].props["profile"] = PyNone

\* The call of SpecArgs has been evaluated, and what it was given.
RequiredGiven(sig) == RequiredParams(sig) \subseteq DOMAIN call.kw
IsEmpty(v) == v = PyNone \/ v = PyStr("")
Given(p) == p \in DOMAIN call.kw /\ Truthy(call.kw[p])
Passed(p) == IF p \in DOMAIN call.kw THEN call.kw[p] ELSE PyNone

\* C7 (as claimed): for every class, a call in which a required parameter
\* is left out, None or empty fails with a TypeError and returns no object.
C7_RequiredNonEmpty ==
    \A sig \in BackendArgs :
       (/\ call.done /\ call.op = sig.cls
        /\ \E p \in RequiredParams(sig) : p \notin DOMAIN call.kw \/ IsEmpty(call.kw[p]))
       => IsRaise(raised) /\ raised.exc = "TypeError" /\ args = PyNone

\* C7 (amended): for every class, a call that leaves a required parameter
\* out fails with a TypeError and returns no object; a call that passes
\* every required parameter, be it None or empty, succeeds for the twelve
\* flat classes and stores the values unchanged; RemoteBackendArgs alone
\* rejects a None or empty organization.
C7_RequiredPresent ==
    \A sig \in BackendArgs :
       (call.done /\ call.op = sig.cls)
       => /\ ~RequiredGiven(sig) => (raised = MissingPositionalError /\ args = PyNone)
          /\ (RequiredGiven(sig) /\ sig.cls # "RemoteBackendArgs")
                => /\ raised = NoExc
                   /\ IsInstance(args, sig.cls)
                   /\ \A p \in RequiredParams(sig) : args.props[p] = call.kw[p]
          /\ (RequiredGiven(sig) /\ sig.cls = "RemoteBackendArgs"
                /\ IsEmpty(call.kw["organization"]))
                => (raised = Raise("TypeError", "Missing organization argument")
                      /\ args = PyNone)

C7_Witness ==
    /\ call.done /\ call.op = "S3BackendArgs"
    /\ DOMAIN call.kw = {"bucket"}
    /\ call.kw["bucket"] = PyStr("v")
    /\ raised = MissingPositionalError
    /\ args = PyNone

\* C8: RemoteBackendArgs with a non-empty organization fails when both
\* workspace_name and workspace_prefix are given a non-empty value, fails
\* when neither is, and succeeds when exactly one is, keeping both under
\* the workspaces key.
C8_WorkspaceExclusive ==
    (call.done /\ call.op = "RemoteBackendArgs" /\ Given("organization"))
    => /\ (Given("workspace_name") /\ Given("workspace_prefix"))
             => (raised = Raise("TypeError",
                                "Only workspace_name or workspace_prefix may be given")
                   /\ args = PyNone)
       /\ (~Given("workspace_name") /\ ~Given("workspace_prefix"))
             => (raised = Raise("TypeError",
                                "Either workspace_name or workspace_prefix is required")
                   /\ args = PyNone)
       /\ (Given("workspace_name") # Given("workspace_prefix"))
             => /\ raised = NoExc
                /\ IsInstance(args, "RemoteBackendArgs")
                /\ args.props["workspaces"] =
                      Dict([j \in {"workspace_name", "workspace_prefix"} |-> Passed(j)])

C8_Witness ==
    /\ call.done /\ call.op = "RemoteBackendArgs"
    /\ Given("organization") /\ Given("workspace_name") /\ Given("workspace_prefix")
    /\ raised = Raise("TypeError", "Only workspace_name or workspace_prefix may be given")

\* The outputs of the reference handle h was taken from.
OutputsOf(h) == refs[handles[h].ref].outputs

\* C9 (as claimed): a handle for a name that the resolved outputs do not
\* hold has the absent value once it is settled, not an error.
C9_MissingIsAbsent ==
    \A h \in DOMAIN handles :
       (/\ OutputsOf(h) # Unresolved
        /\ handles[h].name.s \notin DOMAIN OutputsOf(h).d
        /\ handles[h].value # Pending)
       => handles[h].value = Known(PyNone)

\* No handle is settled while its reference's outputs are unresolved, and a
\* settled handle for a name the outputs hold has the value under that name.
C10_Settled ==
    \A h \in DOMAIN handles :
       handles[h].value # Pending
       => /\ OutputsOf(h) # Unresolved
          /\ handles[h].name.s \in DOMAIN OutputsOf(h).d
                => handles[h].value = Known(OutputsOf(h).d[handles[h].name.s])

\* C10: however many get_output calls were made, none of their handles
\* resolves before outputs does, and once outputs has resolved to a mapping
\* m holding the name, every handle resolves to m[name].
C10_HandlesFollowOutputs ==
    /\ []C10_Settled
    /\ \A h \in 1..MaxHandles :
          (/\ h \in DOMAIN handles
           /\ OutputsOf(h) # Unresolved
           /\ handles[h].name.s \in DOMAIN OutputsOf(h).d)
          ~> (/\ h \in DOMAIN handles
              /\ OutputsOf(h) # Unresolved
              /\ handles[h].name.s \in DOMAIN OutputsOf(h).d
              /\ handles[h].value = Known(OutputsOf(h).d[handles[h].name.s]))

C10_Witness ==
    /\ Len(handles) = 2
    /\ \A h \in {1, 2} :
          /\ handles[h].ref = 1
          /\ handles[h].name = PyStr("x")
          /\ handles[h].value = Known(PyInt(42))
    /\ refs[1].outputs = Dict("x" :> PyInt(42))

\* C11: every reference was registered with the engine exactly once, by its
\* constructor: the engine holds one request per reference, under the
\* reference's name, however many get_output calls were made on it and
\* whether they were made before or after its outputs resolved.
C11_OneRegistrationPerReference ==
    /\ Len(engine) = Len(refs)
    /\ \A i \in DOMAIN refs :
          /\ i \in DOMAIN engine
          /\ engine[i].name = refs[i].name
          /\ engine[i].type = "terraform:state:RemoteStateReference"

\* One reference, one request, and two get_output calls on it of which one
\* has already been answered from the resolved outputs.
C11_Witness ==
    /\ Len(refs) = 1 /\ Len(engine) = 1
    /\ refs[1].outputs # Unresolved
    /\ Len(handles) = 2
    /\ handles[1].ref = 1 /\ handles[2].ref = 1
    /\ handles[1].value # Pending /\ handles[2].value = Pending

\* C12: a reference is created with its outputs unresolved, and a step
\* neither removes a reference nor changes outputs that are resolved: the
\* only change outputs ever makes is the one from unresolved to a mapping.
C12_OutputsResolveOnce ==
    [][/\ \A i \in DOMAIN refs :
            /\ i \in DOMAIN refs'
            /\ refs[i].outputs # Unresolved => refs'[i].outputs = refs[i].outputs
       /\ \A i \in DOMAIN refs' :
            i \notin DOMAIN refs => refs'[i].outputs = Unresolved]_vars

\* A reference whose outputs are resolved, on which get_output was called
\* and answered, beside a second reference still unresolved.
C12_Witness ==
    /\ Len(refs) = 2
    /\ refs[1].outputs = Dict("x" :> PyInt(42))
    /\ refs[2].outputs = Unresolved
    /\ Len(handles) = 2
    /\ handles[1].ref = 1 /\ handles[1].value # Pending
    /\ handles[2].ref = 1

\* The translations made so far by the call of SpecTranslate.
Did == IF call.op = "translate" THEN call.did ELSE <<>>
IsName(v) == IsStr(v)
SnakeKeys == DOMAIN SNAKE_TO_CAMEL_CASE_TABLE
CamelKeys == DOMAIN CAMEL_TO_SNAKE_CASE_TABLE

\* C13: a key of the snake-to-camel table translated to the engine's name
\* and back is the key again, and so is a key of the camel-to-snake table
\* translated to the Python name and back; each table holds, for every entry
\* of the other, the reverse entry, and both have the same number of entries.
C13_RoundTrip ==
    /\ Len(Did) = 2
       => /\ (/\ Did[1].op = "translate_input_property"
              /\ Did[2].op = "translate_output_property"
              /\ IsName(Did[1].prop) /\ Did[1].prop.s \in SnakeKeys)
             => Did[2].result = Did[1].prop
          /\ (/\ Did[1].op = "translate_output_property"
              /\ Did[2].op = "translate_input_property"
              /\ IsName(Did[1].prop) /\ Did[1].prop.s \in CamelKeys)
             => Did[2].result = Did[1].prop
    /\ \A k \in SnakeKeys :
          /\ SNAKE_TO_CAMEL_CASE_TABLE[k] \in CamelKeys
          /\ CAMEL_TO_SNAKE_CASE_TABLE[SNAKE_TO_CAMEL_CASE_TABLE[k]] = k
    /\ \A w \in CamelKeys :
          /\ CAMEL_TO_SNAKE_CASE_TABLE[w] \in SnakeKeys
          /\ SNAKE_TO_CAMEL_CASE_TABLE[CAMEL_TO_SNAKE_CASE_TABLE[w]] = w
    /\ Cardinality(SnakeKeys) = Cardinality(CamelKeys)

\* access_key went to the engine as accessKey and came back as access_key.
C13_Witness ==
    /\ Len(Did) = 2
    /\ Did[1] = [op |-> "translate_input_property", prop |-> PyStr("access_key"),
                 result |-> PyStr("accessKey")]
    /\ Did[2] = [op |-> "translate_output_property", prop |-> PyStr("accessKey"),
                 result |-> PyStr("access_key")]

\* C14: translating a name never raises; translate_input_property returns
\* the snake-to-camel entry of a name that is a key of that table and any
\* other name unchanged, and translate_output_property does the same with
\* the camel-to-snake table.
C14_MappedOrUnchanged ==
    \A i \in DOMAIN Did :
       IsName(Did[i].prop)
       => /\ ~IsRaise(Did[i].result)
          /\ Did[i].op = "translate_input_property"
                => Did[i].result =
                     IF Did[i].prop.s \in SnakeKeys
                     THEN PyStr(SNAKE_TO_CAMEL_CASE_TABLE[Did[i].prop.s])
                     ELSE Did[i].prop
          /\ Did[i].op = "translate_output_property"
                => Did[i].result =
                     IF Did[i].prop.s \in CamelKeys
                     THEN PyStr(CAMEL_TO_SNAKE_CASE_TABLE[Did[i].prop.s])
                     ELSE Did[i].prop

\* A name neither table holds went through both translations unchanged.
C14_Witness ==
    /\ Len(Did) = 2
    /\ Did[1] = [op |-> "translate_input_property", prop |-> PyStr("notAField"),
                 result |-> PyStr("notAField")]
    /\ Did[2] = [op |-> "translate_output_property", prop |-> PyStr("notAField"),
                 result |-> PyStr("notAField")]

\* C15 (as claimed): the snake-to-camel table has an entry for backend_type,
\* for outputs, and for every key that a backend-args constructor puts in
\* props, the key of a nested mapping and the keys inside it included.
C15_TableCoversProps ==
    /\ {"backend_type", "outputs"} \subseteq SnakeKeys
    /\ (call.done /\ raised = NoExc /\ HasProps(args))
       => \A k \in DOMAIN args.props :
             /\ k \in SnakeKeys
             /\ args.props[k].t = "dict" => DOMAIN args.props[k].d \subseteq SnakeKeys

\* The call of SpecNew breaks one of the preconditions the constructor
\* tests: no resource name, opts of another type, no args, a backend kind
\* that is not a string or not registered.
NewBreaksPrecondition ==
    \/ ~Truthy(call.resource_name)
    \/ Truthy(call.opts) /\ ~IsInstance(call.opts, "ResourceOptions")
    \/ ~Truthy(call.args)
    \/ ~IsStr(call.backend_type)
    \/ KindUnknownStr

C17_EmptyNameRejected ==
    (NewDone /\ call.resource_name = PyStr(""))
    => /\ raised = Raise("TypeError", MissingResourceName)
       /\ NothingRegistered

\* The empty name was rejected in a call that is valid in everything else.
C17_Witness ==
    /\ NewDone /\ call.resource_name = PyStr("")
    /\ OptsAbsentOrValid /\ KindRegistered /\ IsArgsObject(call.args)
    /\ call.args.cls = VariantOfKind[call.backend_type.s]
    /\ raised = Raise("TypeError", MissingResourceName)

\* C18 (as claimed): in a call that is valid in everything else, an opts
\* value that was passed and is not a ResourceOptions instance, a falsy one
\* such as 0 included, makes the constructor fail with the invalid options
\* type error, and nothing is registered.
C18_NonOptionsRejected ==
    (/\ NewDone /\ ValidName /\ KindRegistered /\ IsArgsObject(call.args)
     /\ call.args.cls = VariantOfKind[call.backend_type.s]
     /\ call.opts # PyNone /\ ~IsInstance(call.opts, "ResourceOptions"))
    => /\ raised = Raise("TypeError", InvalidOptionsType)
       /\ NothingRegistered

\* The backend-args call of SpecBuild returned an object.
ArgsBuilt == call.done /\ call.op \in {sig.cls : sig \in BackendArgs} /\ raised = NoExc
\* The reference of SpecBuild was constructed from that object.
ReferenceBuilt == ArgsBuilt /\ Len(refs) = 1 /\ Len(engine) = 1
\* The value a property set holds for parameter p, at the top level or
\* inside one of its mappings.
Missing == [t |-> "missing"]
PropAt(props, p) ==
    IF p \in DOMAIN props THEN props[p]
    ELSE IF \E j \in DOMAIN props : props[j].t = "dict" /\ p \in DOMAIN props[j].d
    THEN props[CHOOSE j \in DOMAIN props : props[j].t = "dict" /\ p \in DOMAIN props[j].d].d[p]
    ELSE Missing

\* C19: for each of the thirteen classes, every optional parameter the
\* caller left out is held in props as None, not as the empty string or any
\* other default, and the property set of a reference constructed from the
\* object holds None for it as well.
C19_UnsuppliedIsNone ==
    ArgsBuilt
    => \A sig \in BackendArgs :
          sig.cls = call.op
          => \A p \in OptionalParams(sig) \ DOMAIN call.kw :
                /\ HasProps(args)
                /\ PropAt(args.props, p) = PyNone
                /\ ReferenceBuilt => PropAt(engine[1].props, p) = PyNone

\* An S3 reference built from bucket, key and region alone: profile and
\* role_arn, left out, are None in props and in the reference's properties.
C19_Witness ==
    /\ ReferenceBuilt /\ call.op = "S3BackendArgs"
    /\ DOMAIN call.kw = {"bucket", "key", "region"}
    /\ args.props["profile"] = PyNone
    /\ engine[1].props["profile"] = PyNone
    /\ engine[1].props["role_arn"] = PyNone
    /\ engine[1].props["bucket"] = PyStr("v")

\* C20: the props of a RemoteBackendArgs object hold workspace_name and
\* workspace_prefix inside the mapping under workspaces, as passed, and not
\* at the top level; the property set of a reference constructed from the
\* object holds that mapping under workspaces, unchanged, and has no
\* top-level workspace_name or workspace_prefix either.
C20_WorkspacesNested ==
    (ArgsBuilt /\ call.op = "RemoteBackendArgs")
    => /\ HasProps(args)
       /\ "workspaces" \in DOMAIN args.props
       /\ {"workspace_name", "workspace_prefix"} \cap DOMAIN args.props = {}
       /\ args.props["workspaces"] =
             Dict([j \in {"workspace_name", "workspace_prefix"} |-> Passed(j)])
       /\ ReferenceBuilt
             => /\ "workspaces" \in DOMAIN engine[1].props
                /\ {"workspace_name", "workspace_prefix"} \cap DOMAIN engine[1].props = {}
                /\ engine[1].props["workspaces"] = args.props["workspaces"]

\* A remote reference built with a workspace prefix carries the mapping.
C20_Witness ==
    /\ ReferenceBuilt /\ call.op = "RemoteBackendArgs"
    /\ engine[1].props["backend_type"] = PyStr("remote")
    /\ engine[1].props["workspaces"] =
          Dict([workspace_name |-> PyNone, workspace_prefix |-> PyStr("v")])

\* What a handle for name n holds once it has read the whole mapping m.
ReadFrom(m, n) ==
    IF n.s \in DOMAIN m THEN Known(m[n.s]) ELSE Failed(Raise("KeyError", n.s))

\* C21: for every reference there is one mapping of the state file that all
\* of its settled handles have read, whatever the order of the get_output
\* calls and the resolution: no two handles of a reference hold values of
\* different mappings, none holds a value of a mapping that lacks entries,
\* and the mapping is the one the reference's outputs resolved to.
C21_OneSnapshot ==
    \A i \in DOMAIN refs :
       LET settled == {h \in DOMAIN handles :
                         handles[h].ref = i /\ handles[h].value # Pending}
       IN settled # {}
          => \E m \in OutputMappings :
                /\ refs[i].outputs = Dict(m)
                /\ \A h \in settled : handles[h].value = ReadFrom(m, handles[h].name)

\* Two handles of one reference, for different names, settled from the
\* mapping its outputs resolved to.
C21_Witness ==
    /\ Len(handles) = 2
    /\ handles[1].ref = 1 /\ handles[2].ref = 1
    /\ refs[1].outputs = Dict("x" :> PyInt(7) @@ "y" :> PyInt(1))
    /\ handles[1] = [ref |-> 1, name |-> PyStr("x"), value |-> Known(PyInt(7))]
    /\ handles[2].name = PyStr("missing") /\ handles[2].value # Pending

\* C22: a step leaves the request of every existing reference (backend
\* kind, property set, forced id) and its name as they were; it changes the
\* outputs of at most one reference, and of none when it constructs a
\* reference, takes a handle or settles one; and a handle is settled from
\* the outputs of the reference it was taken from, never from another's.
C22_ReferencesIsolated ==
    [][/\ \A i \in DOMAIN engine : i \in DOMAIN engine' /\ engine'[i] = engine[i]
       /\ \A i \in DOMAIN refs : i \in DOMAIN refs' /\ refs'[i].name = refs[i].name
       /\ \A i, j \in DOMAIN refs :
             (i # j /\ refs'[i] # refs[i]) => refs'[j] = refs[j]
       /\ (handles' # handles \/ Len(refs') > Len(refs))
             => \A i \in DOMAIN refs : refs'[i] = refs[i]
       /\ \A h \in DOMAIN handles :
             handles'[h].value # handles[h].value
             => /\ handles'[h].ref = handles[h].ref
                /\ OutputsOf(h) # Unresolved
                /\ handles'[h].value = ReadFrom(OutputsOf(h).d, handles[h].name)]_vars

\* Two references resolved to different mappings, each with a handle for
\* the same name that holds the value of its own reference.
C22_Witness ==
    /\ Len(refs) = 2 /\ Len(handles) = 2
    /\ refs[1].outputs = Dict("x" :> PyInt(7) @@ "y" :> PyInt(1))
    /\ refs[2].outputs = Dict("x" :> PyInt(42))
    /\ handles[1] = [ref |-> 2, name |-> PyStr("x"), value |-> Known(PyInt(42))]
    /\ handles[2] = [ref |-> 1, name |-> PyStr("x"), value |-> Known(PyInt(7))]

\* The error of the first check, in the documented order, that the call of
\* SpecNew fails, or NoExc when it passes all seven.
FirstFailingCheck ==
    IF ~Truthy(call.resource_name)
    THEN Raise("TypeError", MissingResourceName)
    ELSE IF ~IsStr(call.resource_name)
    THEN Raise("TypeError", ResourceNameNotStr)
    ELSE IF call.opts # PyNone /\ ~IsInstance(call.opts, "ResourceOptions")
    THEN Raise("TypeError", InvalidOptionsType)
    ELSE IF ~Truthy(call.args)
    THEN Raise("TypeError", MissingArgs)
    ELSE IF ~IsStr(call.backend_type)
    THEN Raise("TypeError", BackendTypeNotStr)
    ELSE IF KindUnknownStr
    THEN Raise("TypeError", UnknownBackendKind)
    ELSE IF ~(IsArgsObject(call.args)
              /\ call.args.cls = VariantOfKind[call.backend_type.s])
    THEN Raise("TypeError", BackendArgsMismatch(VariantOfKind[call.backend_type.s],
                                                call.backend_type.s))
    ELSE NoExc

\* C23 (as claimed): the constructor tests the resource name for being
\* given, then for being a string, then the type of opts, then that args is
\* given, that backend_type is a string, that the kind is registered and
\* that args matches the kind; the outcome of a call is the error of the
\* first of these tests it fails and no other, and success if it fails none.
C23_FirstFailingCheckDecides ==
    NewDone => raised = FirstFailingCheck

\* The objects of the program of SpecReuse, and the opts of its i-th request.
Heap == IF call.op = "reuse" THEN call.heap ELSE <<>>
OptsOfRequest(i) == Deref(Heap, engine[i].opts)

\* C24: a constructor call leaves the caller's args object, its props
\* included, and the caller's opts object, its id included, as they were;
\* every request carries an opts object of its own, other than the caller's
\* and than any other request's, whose id is the request's resource name, so
\* that two references made from the same objects have each their own id.
C24_CallerObjectsUntouched ==
    [][call.op = "reuse"
       => /\ call'.heap[call.args.at] = call.heap[call.args.at]
          /\ call.opts # PyNone => call'.heap[call.opts.at] = call.heap[call.opts.at]
          /\ \A i \in DOMAIN engine' :
                /\ engine'[i].opts # call.opts
                /\ engine'[i].props # call.args
                /\ Deref(call'.heap, engine'[i].opts).id = engine'[i].name
                /\ \A j \in DOMAIN engine' :
                      i # j => engine'[i].opts # engine'[j].opts]_vars

\* Two references made from the same args and from an opts whose id is
\* "other": the ids are "a" and "b", and the caller's is still "other".
C24_Witness ==
    /\ call.op = "reuse" /\ call.done /\ Len(engine) = 2
    /\ call.opts = Ref(2) /\ Heap[2] = ResourceOptions(PyStr("other"), PyBool(TRUE))
    /\ Heap[1].cls = "RemoteBackendArgs"
    /\ engine[1].name = PyStr("a") /\ OptsOfRequest(1).id = PyStr("a")
    /\ engine[2].name = PyStr("b") /\ OptsOfRequest(2).id = PyStr("b")
    /\ OptsOfRequest(2).protect = PyBool(TRUE)

\* The run of main of SpecMain: the pull requests it was given and the
\* gh commands it has run.
MainPrs == IF call.op = "main" THEN call.prs ELSE <<>>
MainGh == IF call.op = "main" THEN call.gh ELSE <<>>
\* The title ends with "Upgrade pulumi-terraform-bridge to <hash>".
TitleIsUpgradeTo(title, hash) ==
    /\ Len(title) >= 4
    /\ title[Len(title) - 3] = "Upgrade"
    /\ title[Len(title) - 2] = "pulumi-terraform-bridge"
    /\ title[Len(title) - 1] = "to"
    /\ title[Len(title)] = hash
\* The check at place k is not empty and is named sentinel.
IsSentinelAt(checks, k) == DOMAIN checks[k].d # {} /\ checks[k].d.name = "sentinel"
\* The first sentinel check of the list has completed with success.
FirstSentinelSucceeded(checks) ==
    \E k \in DOMAIN checks :
       /\ IsSentinelAt(checks, k)
       /\ \A j \in 1..(k - 1) : ~IsSentinelAt(checks, j)
       /\ checks[k].d.status = "COMPLETED"
       /\ checks[k].d.conclusion = "SUCCESS"

\* C25: every gh command main has run is the close of one of the pull
\* requests it was given, whose title ends with the upgrade suffix for the
\* hash, which was not closed, and whose first non-empty check named
\* sentinel is completed with conclusion SUCCESS; no pull request is closed
\* twice.
C25_ClosesOnlySucceeded ==
    /\ \A k \in DOMAIN MainGh :
          /\ SubSeq(MainGh[k], 1, 3) = <<"gh", "pr", "close">>
          /\ MainGh[k][4] \in DOMAIN MainPrs
          /\ LET pr == MainPrs[MainGh[k][4]] IN
                /\ TitleIsUpgradeTo(pr.title, call.hash)
                /\ ~pr.closed
                /\ FirstSentinelSucceeded(pr.checks)
    /\ \A k, l \in DOMAIN MainGh : k # l => MainGh[k] # MainGh[l]

\* main has returned after closing the first pull request, whose sentinel
\* check follows an empty check, and not the second, whose title matches
\* too but whose sentinel check is still running.
C25_Witness ==
    /\ call.op = "main" /\ call.done /\ raised = NoExc
    /\ Len(call.prs) = 2
    /\ call.gh = << <<"gh", "pr", "close", 1>> >>
    /\ call.prs[1].checks = <<EmptyCheck, CheckRun("sentinel", "COMPLETED", "SUCCESS")>>
    /\ TitleIsUpgradeTo(call.prs[2].title, "abc") /\ ~call.prs[2].closed
    /\ call.prs[2].checks = <<CheckRun("sentinel", "IN_PROGRESS", "null"),
                              CheckRun("sentinel", "COMPLETED", "SUCCESS")>>

\* The dicts recorded in a list of Results, and whether one of them has the
\* Name given.
SplitRows(list) == [i \in DOMAIN list |-> call.st.heap[list[i].at]]
RowNamed(list, name) == \E i \in DOMAIN list : Get(SplitRows(list)[i], "Name") = name

\* Every row carries the provider; the names in a resource row's Schema list
\* and the names under the element fields of an attribute row are Names of
\* recorded rows; and when parse_res_or_attr has returned to
\* parse_attribute, the element is recorded under "<name>.elem" as a
\* resource if it has a Schema key and as an attribute if not.
SplitRowsConsistent ==
    /\ \A i \in DOMAIN call.st.resources :
          LET row == SplitRows(call.st.resources)[i] IN
             /\ Get(row, "Provider") = PyStr(call.st.provider_name)
             /\ Get(row, "Schema").t = "list"
             /\ \A k \in DOMAIN Get(row, "Schema").l :
                   RowNamed(call.st.attributes, Get(row, "Schema").l[k])
    /\ \A i \in DOMAIN call.st.attributes :
          LET row == SplitRows(call.st.attributes)[i] IN
             /\ Get(row, "Provider") = PyStr(call.st.provider_name)
             /\ Has(row, Element.ATTRIBUTE_ELEMENT) =>
                   RowNamed(call.st.attributes, Get(row, Element.ATTRIBUTE_ELEMENT))
             /\ Has(row, Element.RESOURCE_ELEMENT) =>
                   RowNamed(call.st.resources, Get(row, Element.RESOURCE_ELEMENT))
    /\ Running("parse_attribute", "called") =>
          LET elem == call.st.heap[Get(call.st.heap[Top.schema.at], "Elem").at]
              elem_name == PyStr(Top.name \o ".elem")
          IN IF Has(elem, "Schema")
             THEN /\ call.ret = PyStr(Element.RESOURCE_ELEMENT)
                  /\ RowNamed(call.st.resources, elem_name)
             ELSE /\ call.ret = PyStr(Element.ATTRIBUTE_ELEMENT)
                  /\ RowNamed(call.st.attributes, elem_name)

\* C26: a run of parse_resource or parse_res_or_attr over a loaded schema
\* comes to its end; no step of it changes an object of the loaded schema;
\* and at every point every recorded row has Provider = provider_name,
\* every name in a resource row's Schema list is the Name of an attribute
\* row, every name under attribute_element or resource_element is the Name
\* of an attribute or resource row, and an element is recorded as a
\* resource exactly if it has a Schema key.
C26_SplitRecordsEveryRow ==
    /\ []SplitRowsConsistent
    /\ [][\A i \in 1..call.loaded : call'.st.heap[i] = call.st.heap[i]]_vars
    /\ <>(call.done /\ call.stack = <<>> /\ call.todo = <<>>)

\* A run has ended with two resource rows and with attribute rows of both
\* kinds of element, one of them read from a schema with a Name of its own.
C26_Witness ==
    /\ call.op = "split" /\ call.done
    /\ Len(call.st.resources) = 2
    /\ \E i \in DOMAIN call.st.attributes :
          Has(SplitRows(call.st.attributes)[i], Element.ATTRIBUTE_ELEMENT)
    /\ \E i \in DOMAIN call.st.attributes :
          Has(SplitRows(call.st.attributes)[i], Element.RESOURCE_ELEMENT)
    /\ \E i \in 1..call.loaded : Get(call.st.heap[i], "Name") = PyStr("n")
    /\ \A i \in DOMAIN call.st.attributes :
          Get(SplitRows(call.st.attributes)[i], "Name") # PyStr("n")

============================================================================
